---- MODULE Spec2Model ----
(***************************************************************************)
(* The Compatibility Analysis Engine of src/analyzer.py:                   *)
(* CompatibilityAnalyzer.analyze and everything it calls (specification    *)
(* Spec), the skill extraction of src/resume_parser.py that both parsers   *)
(* use (SpecExtract), and the scorers _compare_skills and _compare_texts   *)
(* called by threads that share the analyzer (SpecSimilarity).             *)
(*                                                                         *)
(* Representation.                                                         *)
(*  - A Python str is a sequence of one-character strings, so that         *)
(*    lower(), the `in` substring test, find(), slicing and split() are    *)
(*    computed character by character as the interpreter computes them.    *)
(*  - The module text is ASCII.  A Cyrillic letter of the source is the    *)
(*    one-character string of its Latin transliteration followed by an     *)
(*    apostrophe ("o'" for the Cyrillic o), so that Cyrillic and Latin     *)
(*    letters stay different characters, as they are in the source.        *)
(*  - A score is an integer number of tenths of a point, a category        *)
(*    percentage an integer number of tenths of a percent, the returned    *)
(*    compatibility_percentage an integer number of hundredths of a        *)
(*    percent.  The round(score, 1) of a category is round-half-to-even on *)
(*    the exact quotient, which is what Python computes whenever the tie   *)
(*    is exactly representable in binary (every tie within the bounds used *)
(*    here).  The unrounded local `compatibility` is a float: its sum,     *)
(*    quotient and product are computed in IEEE-754 binary64.              *)
(*  - The human-readable `details` traces and the icon/text decorations of *)
(*    a skills-table row are display strings derived from fields that are  *)
(*    modelled; they are left out of the records.                          *)
(***************************************************************************)
EXTENDS Integers, Sequences, FiniteSets, TLC

VARIABLES
    resume_data,   \* the ResumeDocument handed to analyze()
    job_data,      \* the JobPosting handed to analyze()
    hashSeed,      \* the interpreter's string-hash seed, fixed per process
    pc,            \* "idle" before the caller's call, then "done" (analyze()
                   \* returned), "raised" (it raised), "extracted"
                   \* (_extract_skills() returned) or "compared"
                   \* (_compare_skills() returned)
    result,        \* what the last analyze() returned (meaningful when pc = "done")
    parsed_text,   \* the raw text handed to _extract_skills()
    parsed_skills, \* what _extract_skills() returned (meaningful when pc = "extracted")
    match_ratio,   \* what _compare_skills() returned (meaningful when pc = "compared")
    calls,         \* per thread, the two texts of its _compare_texts() call
    tpc,           \* per thread, its position in _compare_texts()
    vectorizer,    \* what self.vectorizer was last fitted on
    text_similarity, \* per thread, what _compare_texts() returned (when tpc is "done")
    upload,        \* the request of /api/analyze: the resume file and the job URL
    hpc,           \* the position of the /api/analyze handler
    temp_file,     \* the temporary copy of the uploaded resume on disk
    raised,        \* the exception that reached the handler's except clauses
    http_status    \* the status code of the response (0 before there is one)

analysis_vars == <<resume_data, job_data, hashSeed, pc, result>>
parser_vars == <<parsed_text, parsed_skills>>
similarity_vars == <<match_ratio, calls, tpc, vectorizer, text_similarity>>
handler_vars == <<upload, hpc, temp_file, raised, http_status>>
vars == <<analysis_vars, parser_vars, similarity_vars, handler_vars>>

-----------------------------------------------------------------------------
(* Bounds of the model *)

\* longest job skills list enumerated exhaustively
MaxJobSkills == 2
\* most tokens in a text handed to _extract_skills()
MaxTokens == 3
\* hash seeds 0..MaxSeed are the seeds a process may start with
MaxSeed == 1
MaxLines == 5

-----------------------------------------------------------------------------
(* Python str operations *)

\* the letters that have a lower-case form, Latin then Cyrillic, and those forms
UpperCase == <<"A","B","C","D","E","F","G","H","I","J","K","L","M",
               "N","O","P","Q","R","S","T","U","V","W","X","Y","Z",
               "A'","B'","V'","G'","D'","E'","Yo'","Zh'","Z'","I'","J'","K'","L'","M'","N'","O'","P'","R'","S'","T'","U'","F'","H'","C'","Ch'","Sh'","Sch'","Hard'","Y'","Soft'","Eh'","Yu'","Ya'">>
LowerCase == <<"a","b","c","d","e","f","g","h","i","j","k","l","m",
               "n","o","p","q","r","s","t","u","v","w","x","y","z",
               "a'","b'","v'","g'","d'","e'","yo'","zh'","z'","i'","j'","k'","l'","m'","n'","o'","p'","r'","s'","t'","u'","f'","h'","c'","ch'","sh'","sch'","hard'","y'","soft'","eh'","yu'","ya'">>

LowerOf == [c \in { UpperCase[i] : i \in 1..Len(UpperCase) } |->
              LowerCase[CHOOSE i \in 1..Len(UpperCase) : UpperCase[i] = c]]

LowerChar(c) == IF c \in DOMAIN LowerOf THEN LowerOf[c] ELSE c

\* s.lower()
lower(s) == [i \in 1..Len(s) |-> LowerChar(s[i])]

\* [s.lower() for s in skills]
LowerAll(skills) == [i \in 1..Len(skills) |-> lower(skills[i])]

\* does sub occur in s at 0-based offset i
OccursAt(sub, s, i) ==
    /\ i + Len(sub) <= Len(s)
    /\ \A j \in 1..Len(sub) : s[i + j] = sub[j]

\* sub in s
Contains(sub, s) == \E i \in 0..Len(s) : OccursAt(sub, s, i)

\* any(kw in s for kw in keywords)
ContainsAny(keywords, s) == \E k \in 1..Len(keywords) : Contains(keywords[k], s)

\* s.find(sub): the lowest 0-based offset, -1 when sub does not occur
find(s, sub) ==
    IF Contains(sub, s)
    THEN CHOOSE i \in 0..Len(s) :
            /\ OccursAt(sub, s, i)
            /\ \A k \in 0..(i - 1) : ~OccursAt(sub, s, k)
    ELSE -1

\* s[a:b] for a >= 0 and b >= 0
Slice(s, a, b) == SubSeq(s, a + 1, IF b < Len(s) THEN b ELSE Len(s))

IsSpace(c) == c \in {" ", "\n", "\t"}

\* set(s.split()): the maximal runs of non-whitespace characters
SplitWords(s) ==
    LET starts == { i \in 1..Len(s) :
                      ~IsSpace(s[i]) /\ (i = 1 \/ IsSpace(s[i - 1])) }
        end_of(i) == CHOOSE j \in i..Len(s) :
                        /\ j = Len(s) \/ IsSpace(s[j + 1])
                        /\ \A k \in i..j : ~IsSpace(s[k])
    IN { SubSeq(s, i, end_of(i)) : i \in starts }

\* set(seq)
ToSet(seq) == { seq[i] : i \in 1..Len(seq) }

\* seq[:n]
Take(seq, n) == SubSeq(seq, 1, IF n < Len(seq) THEN n ELSE Len(seq))

\* [s for s in skills if s.lower() in lowered], in list order
RECURSIVE SkillsWhoseLowerIn(_, _)
SkillsWhoseLowerIn(skills, lowered) ==
    IF skills = << >> THEN << >>
    ELSE LET rest == SkillsWhoseLowerIn(Tail(skills), lowered)
         IN IF lower(Head(skills)) \in lowered
            THEN <<Head(skills)>> \o rest
            ELSE rest

\* round(num/den, 0) with ties to even, num >= 0, den > 0
RoundHalfEven(num, den) ==
    LET q == num \div den
        r == num % den
    IN IF 2 * r < den THEN q
       ELSE IF 2 * r > den THEN q + 1
       ELSE IF q % 2 = 0 THEN q ELSE q + 1

RECURSIVE SumOver(_, _)
SumOver(S, f) ==
    IF S = {} THEN 0
    ELSE LET x == CHOOSE y \in S : TRUE IN f[x] + SumOver(S \ {x}, f)

-----------------------------------------------------------------------------
(* Program constants *)

RequiredMax == 50
PreferredMax == 30
ExperienceMax == 10
EducationMax == 5
SoftSkillsMax == 5
\* characters taken before the skill's offset and from it on (_determine_skill_level)
ContextWindow == 50

\* the insertion order of the breakdown dict
CategoryOrder ==
    <<"required_skills", "preferred_skills", "experience", "education", "soft_skills">>

Categories == ToSet(CategoryOrder)

education_keywords ==
    << <<"o'","b'","r'","a'","z'","o'","v'","a'","n'","i'","e'">>, <<"e","d","u","c","a","t","i","o","n">>, <<"u'","n'","i'","v'","e'","r'","s'","i'","t'","e'","t'">>, <<"i'","n'","s'","t'","i'","t'","u'","t'">>,
       <<"v'","u'","z'">>, <<"b'","a'","k'","a'","l'","a'","v'","r'">>, <<"m'","a'","g'","i'","s'","t'","r'">> >>

\* the five soft-skill categories, in dict order, each with its keyword list
soft_skills_keywords ==
    << << <<"k'","o'","m'","m'","u'","n'","i'","k'","a'">>, <<"o'","b'","sch'","e'","n'","i'","e'">>, <<"k'","o'","m'","a'","n'","d'">>, <<"v'","z'","a'","i'","m'","o'","d'","e'","j'","s'","t'","v'","i'","e'">> >>,
       << <<"l'","i'","d'","e'","r'">>, <<"r'","u'","k'","o'","v'","o'","d'">>, <<"u'","p'","r'","a'","v'","l'","e'","n'","i'","e'"," ","k'","o'","m'","a'","n'","d'","o'","j'">> >>,
       << <<"a'","d'","a'","p'","t'","i'","v'">>, <<"b'","y'","s'","t'","r'","o'","e'"," ","o'","b'","u'","ch'","e'","n'","i'","e'">>, <<"g'","i'","b'","k'","o'","s'","t'","soft'">> >>,
       << <<"o'","t'","v'","e'","t'","s'","t'","v'","e'","n'">>, <<"n'","a'","d'","e'","zh'","n'">>, <<"o'","b'","ya'","z'","a'","t'","e'","l'","soft'","n'">> >>,
       << <<"k'","r'","e'","a'","t'","i'","v'">>, <<"t'","v'","o'","r'","ch'","e'","s'","k'">>, <<"i'","n'","n'","o'","v'","a'","c'","i'","o'","n'">> >> >>

\* skill_variations of _has_partial_match: <<key, variations>>
skill_variations ==
    << << <<"d","o","c","k","e","r">>, << <<"k'","o'","n'","t'","e'","j'","n'","e'","r'">>, <<"c","o","n","t","a","i","n","e","r">> >> >>,
       << <<"k","u","b","e","r","n","e","t","e","s">>, << <<"k","8","s">>, <<"o'","r'","k'","e'","s'","t'","r'","a'","c'","i'","ya'">> >> >>,
       << <<"p","y","t","h","o","n">>, << <<"d","j","a","n","g","o">>, <<"f","l","a","s","k">>, <<"f","a","s","t","a","p","i">> >> >>,
       << <<"j","a","v","a","s","c","r","i","p","t">>, << <<"j","s">>, <<"n","o","d","e">>, <<"r","e","a","c","t">>, <<"v","u","e">> >> >> >>

advanced_keywords ==
    << <<"p'","r'","o'","d'","v'","i'","n'","u'","t'">>, <<"e","x","p","e","r","t">>, <<"s","e","n","i","o","r">>, <<"g'","l'","u'","b'","o'","k'">>, <<"o'","p'","y'","t'","n'","y'","j'">> >>
intermediate_keywords ==
    << <<"s'","r'","e'","d'","n'">>, <<"i","n","t","e","r","m","e","d","i","a","t","e">>, <<"m","i","d","d","l","e">>, <<"h'","o'","r'","o'","sh'">> >>

\* requirement_keywords of _find_gaps
requirement_keywords ==
    << <<"o'","p'","y'","t'">>, <<"e","x","p","e","r","i","e","n","c","e">>, <<"r'","a'","b'","o'","t'","a'","l'">>, <<"p'","r'","o'","e'","k'","t'">>, <<"p","r","o","j","e","c","t">> >>

-----------------------------------------------------------------------------
(* The string hash of the running interpreter.  CPython keys str hashes by a *)
(* per-process seed, and a set of str iterates in the order of its hash      *)
(* slots; analyze() itself never fixes that order.  HashSlot stands for the  *)
(* keyed hash: for each seed a different placement of the skill names.       *)

LowerNames ==
    << <<"p","y","t","h","o","n">>, <<"s","q","l">>, <<"d","o","c","k","e","r">>, <<"k","u","b","e","r","n","e","t","e","s">>, <<"a","w","s">>, <<"l","i","n","u","x">> >>

HashSlot(seed, name) ==
    LET rank == CHOOSE i \in 1..Len(LowerNames) : LowerNames[i] = name
    IN (rank * (2 * seed + 1)) % 7

\* list(S) for a set of str: its members by hash slot
RECURSIVE ListOfSet(_)
ListOfSet(S) ==
    IF S = {} THEN << >>
    ELSE LET first == CHOOSE x \in S :
                          \A y \in S : HashSlot(hashSeed, x) <= HashSlot(hashSeed, y)
         IN <<first>> \o ListOfSet(S \ {first})

-----------------------------------------------------------------------------
(* _compare_skills_detailed *)

\* a variant that compares the names without lower-casing them
_compare_skills_detailed_case_sensitive(resume_skills, job_skills, max_score) ==
    IF job_skills = << >>
    THEN [score |-> 10 * max_score, max |-> max_score,
          matching_skills |-> << >>, missing_skills |-> << >>]
    ELSE IF resume_skills = << >>
    THEN [score |-> 0, max |-> max_score,
          matching_skills |-> << >>, missing_skills |-> job_skills]
    ELSE
      LET resume_skills_lower == resume_skills
          job_skills_lower == job_skills
          matching_skills_set == ToSet(resume_skills_lower) \cap ToSet(job_skills_lower)
          missing_skills_set == ToSet(job_skills_lower) \ ToSet(resume_skills_lower)
      IN [score |-> RoundHalfEven(10 * Cardinality(matching_skills_set) * max_score,
                                  Len(job_skills_lower)),
          max |-> max_score,
          matching_skills |-> SkillsWhoseLowerIn(job_skills, matching_skills_set),
          missing_skills |-> SkillsWhoseLowerIn(job_skills, missing_skills_set)]

_compare_skills_detailed(resume_skills, job_skills, max_score) ==
    IF job_skills = << >>
    THEN [score |-> 10 * max_score, max |-> max_score,
          matching_skills |-> << >>, missing_skills |-> << >>]
    ELSE IF resume_skills = << >>
    THEN [score |-> 0, max |-> max_score,
          matching_skills |-> << >>, missing_skills |-> job_skills]
    ELSE
      LET resume_skills_lower == LowerAll(resume_skills)
          job_skills_lower == LowerAll(job_skills)
          matching_skills_set == ToSet(resume_skills_lower) \cap ToSet(job_skills_lower)
          missing_skills_set == ToSet(job_skills_lower) \ ToSet(resume_skills_lower)
      IN [score |-> RoundHalfEven(10 * Cardinality(matching_skills_set) * max_score,
                                  Len(job_skills_lower)),
          max |-> max_score,
          matching_skills |-> SkillsWhoseLowerIn(job_skills, matching_skills_set),
          missing_skills |-> SkillsWhoseLowerIn(job_skills, missing_skills_set)]

\* the word counts divided without intersecting the two sets
_simple_text_comparison_no_intersection(text1, text2) ==
    LET words1 == SplitWords(lower(text1))
        words2 == SplitWords(lower(text2))
    IN IF words2 = {} THEN [num |-> 1, den |-> 1]
       ELSE [num |-> Cardinality(words1), den |-> Cardinality(words2)]

(* _simple_text_comparison: the fraction [num, den] of text2's words found in text1 *)
_simple_text_comparison(text1, text2) ==
    LET words1 == SplitWords(lower(text1))
        words2 == SplitWords(lower(text2))
    IN IF words2 = {} THEN [num |-> 1, den |-> 1]
       ELSE [num |-> Cardinality(words1 \cap words2), den |-> Cardinality(words2)]

(* _compare_experience_detailed *)
_compare_experience_detailed(resume_experience, job_requirements, max_score) ==
    IF job_requirements = << >>
    THEN [score |-> 10 * max_score, max |-> max_score]
    ELSE LET similarity == _simple_text_comparison(resume_experience, job_requirements)
         IN [score |-> RoundHalfEven(10 * similarity.num * max_score, similarity.den),
             max |-> max_score]

(* _compare_education_detailed *)
_compare_education_detailed(resume_education, job_education, max_score) ==
    IF job_education = << >>
    THEN [score |-> 10 * max_score, max |-> max_score]
    ELSE IF resume_education = << >>
    THEN [score |-> 0, max |-> max_score]
    ELSE
      LET resume_has_education == ContainsAny(education_keywords, lower(resume_education))
          job_requires_education == ContainsAny(education_keywords, lower(job_education))
      IN IF ~job_requires_education THEN [score |-> 10 * max_score, max |-> max_score]
         ELSE IF resume_has_education THEN [score |-> 10 * max_score, max |-> max_score]
         ELSE [score |-> RoundHalfEven(10 * max_score, 2), max |-> max_score]

(* _compare_soft_skills *)
_compare_soft_skills(resume_text, job_text, max_score) ==
    LET resume_lower == lower(resume_text)
        job_lower == lower(job_text)
        required == { c \in 1..Len(soft_skills_keywords) :
                        ContainsAny(soft_skills_keywords[c], job_lower) }
        found_soft_skills ==
            Cardinality({ c \in required :
                            ContainsAny(soft_skills_keywords[c], resume_lower) })
        total_soft_skills_required == Cardinality(required)
    IN IF required = {}
       THEN [score |-> 10 * max_score, max |-> max_score]
       ELSE [score |-> RoundHalfEven(10 * found_soft_skills * max_score,
                                     total_soft_skills_required),
             max |-> max_score]

-----------------------------------------------------------------------------
(* _calculate_detailed_breakdown *)

\* a split at half of the list instead of 60%
split_point_half(job_skills) ==
    LET p == Len(job_skills) \div 2
    IN IF p > 1 THEN p ELSE 1

\* a split that rounds 60% of the length up instead of truncating it
split_point_ceil(job_skills) ==
    LET p == (6 * Len(job_skills) + 9) \div 10
    IN IF p > 1 THEN p ELSE 1

\* max(1, int(len(job_skills) * 0.6)); int() truncates, and the float product
\* equals floor(6n/10) for every list length
split_point(job_skills) ==
    LET p == (6 * Len(job_skills)) \div 10
    IN IF p > 1 THEN p ELSE 1

required_skills_of(job_skills) ==
    IF job_skills # << >> THEN SubSeq(job_skills, 1, split_point(job_skills)) ELSE << >>

preferred_skills_of(job_skills) ==
    IF job_skills # << >>
    THEN SubSeq(job_skills, split_point(job_skills) + 1, Len(job_skills))
    ELSE << >>

\* round(score / max * 100, 1) if max > 0 else 0, in tenths of a percent
category_percentage(score, max) ==
    IF max > 0 THEN RoundHalfEven(100 * score, max) ELSE 0

\* a test against None instead of emptiness: never true of a list
skills_not_specified_none(resume) == FALSE

\* not bool(resume_data.get('skills')) or len(resume_data.get('skills', [])) == 0
skills_not_specified(resume) == resume.skills = << >> \/ Len(resume.skills) = 0

_calculate_detailed_breakdown(resume, job) ==
    LET required_score ==
            _compare_skills_detailed(resume.skills, required_skills_of(job.skills), RequiredMax)
        preferred_score ==
            _compare_skills_detailed(resume.skills, preferred_skills_of(job.skills), PreferredMax)
        experience_score ==
            _compare_experience_detailed(resume.experience, job.requirements, ExperienceMax)
        education_score ==
            _compare_education_detailed(resume.education, job.education_required, EducationMax)
        soft_skills_score ==
            _compare_soft_skills(resume.text, job.text, SoftSkillsMax)
    IN [ required_skills |->
           [score |-> required_score.score, max |-> required_score.max,
            percentage |-> category_percentage(required_score.score, required_score.max),
            matching_skills |-> required_score.matching_skills,
            missing_skills |-> required_score.missing_skills,
            not_specified |-> skills_not_specified(resume)],
         preferred_skills |->
           [score |-> preferred_score.score, max |-> preferred_score.max,
            percentage |-> category_percentage(preferred_score.score, preferred_score.max),
            matching_skills |-> preferred_score.matching_skills,
            missing_skills |-> preferred_score.missing_skills,
            not_specified |-> skills_not_specified(resume)],
         experience |->
           [score |-> experience_score.score, max |-> experience_score.max,
            percentage |-> category_percentage(experience_score.score, experience_score.max),
            not_specified |-> (resume.experience = << >>)],
         education |->
           [score |-> education_score.score, max |-> education_score.max,
            percentage |-> category_percentage(education_score.score, education_score.max),
            not_specified |-> (resume.education = << >>)],
         soft_skills |->
           [score |-> soft_skills_score.score, max |-> soft_skills_score.max,
            percentage |-> category_percentage(soft_skills_score.score, soft_skills_score.max),
            not_specified |-> FALSE] ]

-----------------------------------------------------------------------------
(* Python floats.  `compatibility` is computed in IEEE-754 binary64 with
   round-to-nearest-even after every operation.  A non-negative float below
   2^24 is held exactly as four limbs <<l0, l1, l2, l3>> in base 2^24:
   its value is l3 + l2/2^24 + l1/2^48 + l0/2^72.  Every float of the
   computation is a multiple of 2^-72, so the representation loses nothing. *)

float_limb == 16777216

float_of_int(n) == <<0, 0, 0, n>>

\* carries propagated, every limb back below the base
float_carry(a) ==
    LET s2 == a[2] + (a[1] \div float_limb)
        s3 == a[3] + (s2 \div float_limb)
        s4 == a[4] + (s3 \div float_limb)
    IN << a[1] % float_limb, s2 % float_limb, s3 % float_limb, s4 >>

\* the exact sum and the exact product by a small integer
float_exact_add(a, b) == float_carry([i \in 1..4 |-> a[i] + b[i]])

float_exact_times(a, k) == float_carry([i \in 1..4 |-> a[i] * k])

\* the exact quotient by a small integer, truncated at 2^-72, and whether
\* nothing was cut off
float_exact_div(a, d) ==
    LET r4 == a[4] % d
        n3 == r4 * float_limb + a[3]
        r3 == n3 % d
        n2 == r3 * float_limb + a[2]
        r2 == n2 % d
        n1 == r2 * float_limb + a[1]
    IN [quot |-> << n1 \div d, n2 \div d, n3 \div d, a[4] \div d >>,
        exact |-> (n1 % d = 0)]

\* -1, 0, 1 as a < b, a = b, a > b
float_cmp(a, b) ==
    IF a[4] # b[4] THEN (IF a[4] < b[4] THEN -1 ELSE 1)
    ELSE IF a[3] # b[3] THEN (IF a[3] < b[3] THEN -1 ELSE 1)
    ELSE IF a[2] # b[2] THEN (IF a[2] < b[2] THEN -1 ELSE 1)
    ELSE IF a[1] # b[1] THEN (IF a[1] < b[1] THEN -1 ELSE 1)
    ELSE 0

RECURSIVE bit_length(_)
bit_length(n) == IF n = 0 THEN 0 ELSE 1 + bit_length(n \div 2)

\* the number of significant bits of a, counted from 2^-72
float_bit_length(a) ==
    IF a[4] # 0 THEN 72 + bit_length(a[4])
    ELSE IF a[3] # 0 THEN 48 + bit_length(a[3])
    ELSE IF a[2] # 0 THEN 24 + bit_length(a[2])
    ELSE bit_length(a[1])

\* the binary64 nearest to a (plus something below 2^-72 when `inexact`):
\* 53 significant bits are kept, ties go to the even mantissa
float_round(a, inexact) ==
    LET dropped == float_bit_length(a) - 53
    IN IF dropped <= 0 THEN a
       ELSE LET j == dropped \div 24
                p == 2 ^ (dropped % 24)
                low == [i \in 1..4 |-> IF i - 1 < j THEN a[i]
                                       ELSE IF i - 1 = j THEN a[i] % p
                                       ELSE 0]
                kept == [i \in 1..4 |-> a[i] - low[i]]
                half == [i \in 1..4 |->
                            IF p > 1 THEN (IF i - 1 = j THEN p \div 2 ELSE 0)
                            ELSE (IF i = j THEN float_limb \div 2 ELSE 0)]
                unit == [i \in 1..4 |-> IF i - 1 = j THEN p ELSE 0]
                odd == (a[j + 1] \div p) % 2 = 1
                c == float_cmp(low, half)
            IN IF c > 0 \/ (c = 0 /\ (inexact \/ odd))
               THEN float_exact_add(kept, unit)
               ELSE kept

\* a + b, a / d and a * k as the machine computes them
float_add(a, b) == float_round(float_exact_add(a, b), FALSE)

float_div(a, d) ==
    LET q == float_exact_div(a, d) IN float_round(q.quot, ~q.exact)

float_times(a, k) == float_round(float_exact_times(a, k), FALSE)

\* the float that round(x, 1) returns for the decimal tenths/10
float_of_tenths(tenths) == float_div(float_of_int(tenths), 10)

\* sum(): before Python 3.12 the items are added from left to right
RECURSIVE float_sum_from(_, _)
float_sum_from(acc, items) ==
    IF items = << >> THEN acc
    ELSE float_sum_from(float_add(acc, Head(items)), Tail(items))

float_sum(items) == float_sum_from(float_of_int(0), items)

\* the integer nearest to a, ties to even
float_to_nearest(a) ==
    LET c == float_cmp(<<a[1], a[2], a[3], 0>>, <<0, 0, float_limb \div 2, 0>>)
    IN IF c < 0 THEN a[4]
       ELSE IF c > 0 THEN a[4] + 1
       ELSE IF a[4] % 2 = 0 THEN a[4] ELSE a[4] + 1

-----------------------------------------------------------------------------
(* the total *)

\* no category filtered out
valid_categories_all(breakdown) == Categories

\* a filter that also drops soft_skills
valid_categories_without_soft_skills(breakdown) ==
    { k \in Categories \ {"soft_skills"} : ~breakdown[k].not_specified }

\* {k: v for k, v in breakdown.items() if not v.get('not_specified', False)}
valid_categories(breakdown) == { k \in Categories : ~breakdown[k].not_specified }

\* the scores of the categories `counted`, in the order of the breakdown's keys
scores_of(breakdown, counted) ==
    LET keys == SelectSeq(CategoryOrder, LAMBDA k : k \in counted)
    IN [i \in 1..Len(keys) |-> float_of_tenths(breakdown[keys[i]].score)]

\* the scores of all categories over the maxima of the counted ones
compatibility_of_all_scores(breakdown) ==
    LET valid == valid_categories(breakdown)
    IN float_times(
           float_div(float_sum(scores_of(breakdown, Categories)),
                     SumOver(valid, [k \in Categories |-> breakdown[k].max])),
           100)

\* the local `compatibility` of analyze():
\* sum(score) / sum(max) * 100 over the counted categories, a float
compatibility_of(breakdown) ==
    LET valid == valid_categories(breakdown)
    IN IF valid # {}
       THEN float_times(
                float_div(float_sum(scores_of(breakdown, valid)),
                          SumOver(valid, [k \in Categories |-> breakdown[k].max])),
                100)
       ELSE float_of_int(0)

\* rounding to one decimal instead of two
round2_one_decimal(compatibility) ==
    10 * float_to_nearest(float_exact_times(compatibility, 10))

\* round(compatibility, 2), in hundredths of a percent
round2(compatibility) == float_to_nearest(float_exact_times(compatibility, 100))

\* f"{compatibility:.0f}"
format0(compatibility) == float_to_nearest(compatibility)

\* compatibility >= threshold, for an integer threshold
at_least(compatibility, threshold) == compatibility[4] >= threshold

-----------------------------------------------------------------------------
(* _create_skills_table and its helpers *)

\* the variations looked up among the resume skills instead of the resume text
_has_partial_match_in_skills(skill, resume_skills, resume_text) ==
    \E v \in 1..Len(skill_variations) :
        /\ Contains(skill_variations[v][1], skill)
        /\ \E a \in 1..Len(skill_variations[v][2]) :
              skill_variations[v][2][a] \in ToSet(resume_skills)

_has_partial_match(skill, resume_skills, resume_text) ==
    LET resume_text_lower == lower(resume_text)
    IN \E v \in 1..Len(skill_variations) :
          /\ Contains(skill_variations[v][1], skill)
          /\ ContainsAny(skill_variations[v][2], resume_text_lower)

_determine_skill_level(skill, resume_text) ==
    LET resume_lower == lower(resume_text)
        skill_lower == lower(skill)
        at == find(resume_lower, skill_lower)
        skill_context ==
            Slice(resume_lower,
                  IF at - ContextWindow > 0 THEN at - ContextWindow ELSE 0,
                  at + ContextWindow)
    IN IF ContainsAny(advanced_keywords, skill_context) THEN "Advanced"
       ELSE IF ContainsAny(intermediate_keywords, skill_context) THEN "Intermediate"
       ELSE "Basic"

\* a row that counts a skill with a variation in the resume text as present
skills_table_row_variation_present(job_skill, resume_skills, resume_text) ==
    LET job_skill_lower == lower(job_skill)
    IN IF job_skill_lower \in ToSet(resume_skills)
       THEN [skill |-> job_skill, status |-> "present",
             level |-> _determine_skill_level(job_skill, resume_text),
             action |-> << <<"-">> >>]
       ELSE IF _has_partial_match(job_skill_lower, resume_skills, resume_text)
       THEN [skill |-> job_skill, status |-> "present",
             level |-> "Intermediate",
             action |-> << <<"P","r","a","c","t","i","c","e">>, job_skill >>]
       ELSE [skill |-> job_skill, status |-> "missing",
             level |-> "Beginner",
             action |-> << <<"L","e","a","r","n">>, job_skill >>]

skills_table_row(job_skill, resume_skills, resume_text) ==
    LET job_skill_lower == lower(job_skill)
    IN IF job_skill_lower \in ToSet(resume_skills)
       THEN [skill |-> job_skill, status |-> "present",
             level |-> _determine_skill_level(job_skill, resume_text),
             action |-> << <<"-">> >>]
       ELSE IF _has_partial_match(job_skill_lower, resume_skills, resume_text)
       THEN [skill |-> job_skill, status |-> "partial",
             level |-> "Intermediate",
             action |-> << <<"P","r","a","c","t","i","c","e">>, job_skill >>]
       ELSE [skill |-> job_skill, status |-> "missing",
             level |-> "Beginner",
             action |-> << <<"L","e","a","r","n">>, job_skill >>]

\* a table with one row per distinct job skill
RECURSIVE UniqueRows(_, _, _, _)
UniqueRows(job_skills, seen, resume_skills, resume_text) ==
    IF job_skills = << >> THEN << >>
    ELSE IF lower(Head(job_skills)) \in seen
    THEN UniqueRows(Tail(job_skills), seen, resume_skills, resume_text)
    ELSE << skills_table_row(Head(job_skills), resume_skills, resume_text) >>
         \o UniqueRows(Tail(job_skills), seen \cup {lower(Head(job_skills))},
                       resume_skills, resume_text)

_create_skills_table_unique(resume, job) ==
    UniqueRows(job.skills, {}, LowerAll(resume.skills), resume.text)

_create_skills_table(resume, job) ==
    LET resume_skills == LowerAll(resume.skills)
    IN [i \in 1..Len(job.skills) |->
           skills_table_row(job.skills[i], resume_skills, resume.text)]

-----------------------------------------------------------------------------
(* _find_gaps *)

\* a variant that reports the education gap first
_find_gaps_education_first(resume, job) ==
    LET resume_skills == LowerAll(resume.skills)
        job_skills == LowerAll(job.skills)
        missing_skills == ToSet(job_skills) \ ToSet(resume_skills)
        missing_skills_list == ListOfSet(missing_skills)
        job_requirements == lower(job.requirements)
        resume_experience == lower(resume.experience)
        missing_experience ==
            { k \in 1..Len(requirement_keywords) :
                /\ Contains(requirement_keywords[k], job_requirements)
                /\ ~Contains(requirement_keywords[k], resume_experience) }
        job_education == lower(job.education_required)
        resume_education == lower(resume.education)
    IN (IF job_education # << >> /\ resume_education = << >>
        THEN << [category |-> "education", items |-> << <<"n","o"," ","e","d","u","c","a","t","i","o","n">> >>,
                 description |-> << >>] >>
        ELSE << >>)
       \o
       (IF missing_skills # {}
        THEN << [category |-> "skills", items |-> missing_skills_list,
                 description |-> Take(missing_skills_list, 5)] >>
        ELSE << >>)
       \o
       (IF missing_experience # {} /\ resume_experience = << >>
        THEN << [category |-> "experience", items |-> << <<"n","o"," ","e","x","p","e","r","i","e","n","c","e">> >>,
                 description |-> << >>] >>
        ELSE << >>)

\* a variant whose skills gap keeps only the first five missing names
_find_gaps_five_items(resume, job) ==
    LET resume_skills == LowerAll(resume.skills)
        job_skills == LowerAll(job.skills)
        missing_skills == ToSet(job_skills) \ ToSet(resume_skills)
        missing_skills_list == ListOfSet(missing_skills)
        job_requirements == lower(job.requirements)
        resume_experience == lower(resume.experience)
        missing_experience ==
            { k \in 1..Len(requirement_keywords) :
                /\ Contains(requirement_keywords[k], job_requirements)
                /\ ~Contains(requirement_keywords[k], resume_experience) }
        job_education == lower(job.education_required)
        resume_education == lower(resume.education)
    IN (IF missing_skills # {}
        THEN << [category |-> "skills", items |-> Take(missing_skills_list, 5),
                 description |-> Take(missing_skills_list, 5)] >>
        ELSE << >>)
       \o
       (IF missing_experience # {} /\ resume_experience = << >>
        THEN << [category |-> "experience", items |-> << <<"n","o"," ","e","x","p","e","r","i","e","n","c","e">> >>,
                 description |-> << >>] >>
        ELSE << >>)
       \o
       (IF job_education # << >> /\ resume_education = << >>
        THEN << [category |-> "education", items |-> << <<"n","o"," ","e","d","u","c","a","t","i","o","n">> >>,
                 description |-> << >>] >>
        ELSE << >>)

\* a variant that reports missing experience keywords whatever the resume holds
_find_gaps_any_missing_experience(resume, job) ==
    LET resume_skills == LowerAll(resume.skills)
        job_skills == LowerAll(job.skills)
        missing_skills == ToSet(job_skills) \ ToSet(resume_skills)
        missing_skills_list == ListOfSet(missing_skills)
        job_requirements == lower(job.requirements)
        resume_experience == lower(resume.experience)
        missing_experience ==
            { k \in 1..Len(requirement_keywords) :
                /\ Contains(requirement_keywords[k], job_requirements)
                /\ ~Contains(requirement_keywords[k], resume_experience) }
        job_education == lower(job.education_required)
        resume_education == lower(resume.education)
    IN (IF missing_skills # {}
        THEN << [category |-> "skills", items |-> missing_skills_list,
                 description |-> Take(missing_skills_list, 5)] >>
        ELSE << >>)
       \o
       (IF missing_experience # {}
        THEN << [category |-> "experience", items |-> << <<"n","o"," ","e","x","p","e","r","i","e","n","c","e">> >>,
                 description |-> << >>] >>
        ELSE << >>)
       \o
       (IF job_education # << >> /\ resume_education = << >>
        THEN << [category |-> "education", items |-> << <<"n","o"," ","e","d","u","c","a","t","i","o","n">> >>,
                 description |-> << >>] >>
        ELSE << >>)

_find_gaps(resume, job) ==
    LET resume_skills == LowerAll(resume.skills)
        job_skills == LowerAll(job.skills)
        missing_skills == ToSet(job_skills) \ ToSet(resume_skills)
        missing_skills_list == ListOfSet(missing_skills)
        job_requirements == lower(job.requirements)
        resume_experience == lower(resume.experience)
        missing_experience ==
            { k \in 1..Len(requirement_keywords) :
                /\ Contains(requirement_keywords[k], job_requirements)
                /\ ~Contains(requirement_keywords[k], resume_experience) }
        job_education == lower(job.education_required)
        resume_education == lower(resume.education)
    IN (IF missing_skills # {}
        THEN << [category |-> "skills", items |-> missing_skills_list,
                 description |-> Take(missing_skills_list, 5)] >>
        ELSE << >>)
       \o
       (IF missing_experience # {} /\ resume_experience = << >>
        THEN << [category |-> "experience", items |-> << <<"n","o"," ","e","x","p","e","r","i","e","n","c","e">> >>,
                 description |-> << >>] >>
        ELSE << >>)
       \o
       (IF job_education # << >> /\ resume_education = << >>
        THEN << [category |-> "education", items |-> << <<"n","o"," ","e","d","u","c","a","t","i","o","n">> >>,
                 description |-> << >>] >>
        ELSE << >>)

-----------------------------------------------------------------------------
(* _generate_motivational_recommendations.  A recommendation string is the   *)
(* record of its template (kind), the percentage printed in it (pct, -1 when *)
(* the template prints none) and the names interpolated into it.             *)

Line(kind, pct, names) == [kind |-> kind, pct |-> pct, names |-> names]

\* strong_text: the display name of a category
category_text(cat) ==
    CASE cat = "required_skills" -> <<"r","e","q","u","i","r","e","d">>
      [] cat = "preferred_skills" -> <<"p","r","e","f","e","r","r","e","d">>
      [] cat = "experience" -> <<"e","x","p","e","r","i","e","n","c","e">>
      [] cat = "education" -> <<"e","d","u","c","a","t","i","o","n">>
      [] cat = "soft_skills" -> <<"s","o","f","t"," ","s","k","i","l","l","s">>

\* [cat for cat in breakdown if keep(cat)], in dict order
RECURSIVE CategoriesIn(_, _)
CategoriesIn(order, keep) ==
    IF order = << >> THEN << >>
    ELSE IF Head(order) \in keep
         THEN <<Head(order)>> \o CategoriesIn(Tail(order), keep)
         ELSE CategoriesIn(Tail(order), keep)

\* the lines one loop over `gaps` appends: one per skills gap with items
RECURSIVE SkillsGapLines(_, _, _)
SkillsGapLines(gaps, kind, n) ==
    IF gaps = << >> THEN << >>
    ELSE (IF Head(gaps).category = "skills" /\ Head(gaps).items # << >>
          THEN << Line(kind, -1, Take(Head(gaps).items, n)) >>
          ELSE << >>)
         \o SkillsGapLines(Tail(gaps), kind, n)

_generate_motivational_recommendations(compatibility, breakdown, gaps) ==
    LET weak_categories ==
            CategoriesIn(CategoryOrder, { c \in Categories : breakdown[c].percentage < 500 })
        strong_categories ==
            CategoriesIn(CategoryOrder,
                { c \in Categories : /\ ~(breakdown[c].percentage < 500)
                                     /\ breakdown[c].percentage >= 800 })
        strong_two == Take(strong_categories, 2)
        plan == SkillsGapLines(Take(gaps, 3), "learn", 1)
    IN << (IF at_least(compatibility, 70)
           THEN Line("level_great", format0(compatibility), << >>)
           ELSE IF at_least(compatibility, 50)
           THEN Line("level_good", format0(compatibility), << >>)
           ELSE Line("level_basics", format0(compatibility), << >>)) >>
       \o
       (IF strong_categories # << >>
        THEN << Line("strengths", -1,
                     [i \in 1..Len(strong_two) |-> category_text(strong_two[i])]) >>
        ELSE << >>)
       \o
       (IF weak_categories # << >> \/ gaps # << >>
        THEN << Line("improve", -1, << >>) >>
             \o SkillsGapLines(gaps, "key_skills", 3)
             \o (IF "required_skills" \in ToSet(weak_categories)
                 THEN << Line("improve_required", -1, << >>) >> ELSE << >>)
             \o (IF "experience" \in ToSet(weak_categories)
                 THEN << Line("improve_experience", -1, << >>) >> ELSE << >>)
        ELSE << >>)
       \o << Line("plan", -1, << >>) >>
       \o plan
       \o (IF Len(plan) = 0
           THEN << Line("keep_developing", -1, << >>), Line("update_resume", -1, << >>) >>
           ELSE << >>)

(* _generate_motivational_message *)
_generate_motivational_message(compatibility) ==
    [tier |-> IF at_least(compatibility, 80) THEN "congratulations"
              ELSE IF at_least(compatibility, 60) THEN "excellent"
              ELSE IF at_least(compatibility, 40) THEN "almost"
              ELSE "plan",
     pct |-> format0(compatibility)]

-----------------------------------------------------------------------------
(* analyze *)

analyze(resume, job) ==
    LET breakdown == _calculate_detailed_breakdown(resume, job)
        compatibility == compatibility_of(breakdown)
        skills_table == _create_skills_table(resume, job)
        gaps == _find_gaps(resume, job)
    IN [compatibility_percentage |-> round2(compatibility),
        breakdown |-> breakdown,
        skills_table |-> skills_table,
        gaps |-> gaps,
        recommendations |->
            _generate_motivational_recommendations(compatibility, breakdown, gaps),
        motivational_message |-> _generate_motivational_message(compatibility),
        resume_skills |-> resume.skills,
        job_skills |-> job.skills]

-----------------------------------------------------------------------------
(* The errors analyze() can raise.  Its partial operations are the divisions *)
(* by a computed length or sum and the subscripts with a fixed key; every    *)
(* other read is a .get() with a default, a slice or a membership test.      *)

\* a variant without the early return for an empty job_skills list
_compare_skills_detailed_raises_unguarded(resume_skills, job_skills) ==
    /\ resume_skills # << >>
    /\ Len(LowerAll(job_skills)) = 0

\* ZeroDivisionError in _compare_skills_detailed: the division by
\* len(job_skills_lower) is reached only past the two early returns
_compare_skills_detailed_raises(resume_skills, job_skills) ==
    /\ job_skills # << >>
    /\ resume_skills # << >>
    /\ Len(LowerAll(job_skills)) = 0

\* ZeroDivisionError in _simple_text_comparison: the division by len(words2)
\* is reached only when words2 is not empty
_simple_text_comparison_raises(text1, text2) ==
    LET words2 == SplitWords(lower(text2))
    IN words2 # {} /\ Cardinality(words2) = 0

\* does analyze(resume, job) raise instead of returning
analyze_raises(resume, job) ==
    LET breakdown == _calculate_detailed_breakdown(resume, job)
        valid == valid_categories(breakdown)
        gaps == _find_gaps(resume, job)
    IN \/ _compare_skills_detailed_raises(resume.skills,
                                          required_skills_of(job.skills))
       \/ _compare_skills_detailed_raises(resume.skills,
                                          preferred_skills_of(job.skills))
       \/ /\ job.requirements # << >>
          /\ _simple_text_comparison_raises(resume.experience, job.requirements)
       \* sum of score / sum of max over the counted categories
       \/ /\ valid # {}
          /\ SumOver(valid, [c \in valid |-> breakdown[c].max]) = 0
       \* cat['score'], cat['max'], cat_data['percentage']
       \/ \E c \in DOMAIN breakdown :
             ~({"score", "max", "percentage"} \subseteq DOMAIN breakdown[c])
       \* gap['category'], gap['items']
       \/ \E i \in 1..Len(gaps) :
             ~({"category", "items"} \subseteq DOMAIN gaps[i])

-----------------------------------------------------------------------------
(* The input records after analyze().  The code reads them with .get(),      *)
(* lower(), slices and comprehensions, which build new lists and strings; it *)
(* assigns to no key and calls no mutating method on them or their lists.    *)

resume_data_after(resume, job) == resume

\* a variant that lower-cases the job's skills list in place
job_data_after_lowered(resume, job) ==
    [job EXCEPT !.skills = LowerAll(job.skills)]

job_data_after(resume, job) == job

-----------------------------------------------------------------------------
(* The records handed to analyze() *)

Python == <<"P","y","t","h","o","n">>
SQL == <<"S","Q","L">>
Docker == <<"D","o","c","k","e","r">>
Kubernetes == <<"K","u","b","e","r","n","e","t","e","s">>
AWS == <<"A","W","S">>
Linux == <<"L","i","n","u","x">>

\* every sequence over S of length at most n
SeqsUpTo(S, n) == UNION { [1..k -> S] : k \in 0..n }

Pad == [i \in 1..ContextWindow |-> " "]

ScenarioResumeSkills == <<Python, SQL>>
ScenarioJobSkills == <<Python, SQL, Docker, Kubernetes, AWS>>

\* a posting with more than five skills
LongJobSkills == ScenarioJobSkills \o <<Linux>>

\* resume skills lists: no canonical name twice (the parser's invariant)
ResumeSkillLists == { << >>, ScenarioResumeSkills, << <<"p","y","t","h","o","n">> >>, <<Docker>> }

\* job skills lists: any order, case and repetition
JobSkillLists ==
    SeqsUpTo({Python, <<"p","y","t","h","o","n">>, Docker}, MaxJobSkills)
        \cup {ScenarioJobSkills, LongJobSkills}

TextSenior == <<"S","e","n","i","o","r"," ","P","y","t","h","o","n"," ","d","e","v","e","l","o","p","e","r",","," ","l'","i'","d'","e'","r'"," ","k'","o'","m'","a'","n'","d'","y'">>
TextFar == <<"p","y","t","h","o","n">> \o Pad \o <<"e","x","p","e","r","t">>
TextAlias == <<"s","e","n","i","o","r"," ","e","n","g","i","n","e","e","r",":"," ","d","j","a","n","g","o",","," ","c","o","n","t","a","i","n","e","r">>
TextMiddle == <<"d","o","c","k","e","r",","," ","m","i","d","d","l","e">>
ResumeTexts == { << >>, TextSenior, TextFar, TextAlias, TextMiddle }

JobTextSoft == <<"N'","u'","zh'","e'","n'"," ","l'","i'","d'","e'","r'",","," ","k'","o'","m'","a'","n'","d'","a'",","," ","k'","r'","e'","a'","t'","i'","v'">>

ExperienceTexts == { << >>, <<"E","x","p","e","r","i","e","n","c","e",":"," ","P","y","t","h","o","n"," ","D","j","a","n","g","o">>, <<"r'","a'","b'","o'","t'","a'","l'"," ","s'"," ","s","q","l">> }
RequirementsTexts ==
    { << >>, <<" ">>, <<"e","x","p","e","r","i","e","n","c","e"," ","p","y","t","h","o","n"," ","s","q","l"," ","a","w","s">>, <<"p","y","t","h","o","n"," ","d","o","c","k","e","r">> }
EducationTexts == { << >>, <<"M","S","U",","," ","h","i","g","h","e","r"," ","e","d","u","c","a","t","i","o","n">>, <<"o","n","l","i","n","e"," ","c","o","u","r","s","e","s">> }
EducationRequired == { << >>, <<"T'","r'","e'","b'","u'","e'","t'","s'","ya'",":"," ","u'","n'","i'","v'","e'","r'","s'","i'","t'","e'","t'">>, <<"T'","r'","e'","b'","u'","e'","t'","s'","ya'",":"," ","d","e","g","r","e","e">> }

\* records that vary the skills lists and the resume text
TableResumes ==
    [skills : ResumeSkillLists, text : ResumeTexts,
     experience : {<< >>}, education : {<< >>}]
TableJobs ==
    [skills : JobSkillLists, text : {<< >>},
     requirements : {<< >>}, education_required : {<< >>}]

\* records that vary every scored field
ScoringResumes ==
    [skills : {<< >>, ScenarioResumeSkills}, text : {<< >>, TextSenior},
     experience : ExperienceTexts, education : EducationTexts]
ScoringJobs ==
    [skills : {<< >>, ScenarioJobSkills, <<Docker, Python>>}, text : {<< >>, JobTextSoft},
     requirements : RequirementsTexts, education_required : EducationRequired]

\* records whose scores 33.3, 0.0, 1.4 and 3.3 of 95 points add up to 40 percent
TextTeamLead == <<"l'","i'","d'","e'","r'"," ","k'","o'","m'","a'","n'","d'","y'">>
JobTextTeam == <<"n'","u'","zh'","e'","n'"," ","l'","i'","d'","e'","r'",","," ","k'","o'","m'","a'","n'","d'","a'",","," ","a'","d'","a'","p'","t'","i'","v'","n'","o'","s'","t'","soft'">>
ExperienceAutomation == <<"p","y","t","h","o","n"," ","a","u","t","o","m","a","t","i","o","n">>
RequirementsBackend == <<"p","y","t","h","o","n"," ","b","a","c","k","e","n","d"," ","d","e","v","e","l","o","p","e","r"," ","i","n"," ","a"," ","s","m","a","l","l"," ","t","e","a","m">>
ThresholdResumes ==
    [skills : {ScenarioResumeSkills}, text : {TextTeamLead},
     experience : {ExperienceAutomation}, education : {<< >>}]
ThresholdJobs ==
    [skills : {ScenarioJobSkills}, text : {JobTextTeam},
     requirements : {RequirementsBackend}, education_required : {<< >>}]

Seeds == 0..MaxSeed

NoResult == << >>

\* the threads that may call into the one CompatibilityAnalyzer
Threads == {1, 2}

\* self.vectorizer before any fit
Unfitted == << >>
NoCall == [resume_text |-> << >>, job_text |-> << >>]
NoRatio == [num |-> 0, den |-> 1]

\* no thread is inside _compare_texts() and none has called it
SimilarityIdle ==
    /\ match_ratio = NoRatio
    /\ calls = [t \in Threads |-> NoCall]
    /\ tpc = [t \in Threads |-> "idle"]
    /\ vectorizer = Unfitted
    /\ text_similarity = [t \in Threads |-> NoResult]

\* no request has reached /api/analyze
NoUpload == [filename |-> << >>, content |-> "none", job_url |-> "none"]

HandlerIdle ==
    /\ upload = NoUpload
    /\ hpc = "idle"
    /\ temp_file = "none"
    /\ raised = "none"
    /\ http_status = 0


-----------------------------------------------------------------------------
(* The state machine: one CompatibilityAnalyzer in one interpreter process *)

Init ==
    /\ \/ resume_data \in TableResumes /\ job_data \in TableJobs
       \/ resume_data \in ScoringResumes /\ job_data \in ScoringJobs
       \/ resume_data \in ThresholdResumes /\ job_data \in ThresholdJobs
    /\ hashSeed \in Seeds
    /\ pc = "idle"
    /\ result = NoResult
    /\ parsed_text = << >>
    /\ parsed_skills = << >>
    /\ SimilarityIdle
    /\ HandlerIdle

\* a caller runs analyze(resume_data, job_data) and keeps what it returns, or
\* sees the error it raises
Analyze ==
    /\ IF analyze_raises(resume_data, job_data)
       THEN /\ pc' = "raised"
            /\ result' = NoResult
       ELSE /\ pc' = "done"
            /\ result' = analyze(resume_data, job_data)
    /\ resume_data' = resume_data_after(resume_data, job_data)
    /\ job_data' = job_data_after(resume_data, job_data)
    /\ UNCHANGED <<hashSeed, parser_vars, similarity_vars, handler_vars>>

\* the process is started anew: the interpreter draws another hash seed;
\* the caller still holds the records and the result it was given
Restart ==
    /\ \E s \in Seeds : s # hashSeed /\ hashSeed' = s
    /\ UNCHANGED <<resume_data, job_data, pc, result, parser_vars, similarity_vars, handler_vars>>

Next == Analyze \/ Restart

Spec == Init /\ [][Next]_vars

-----------------------------------------------------------------------------
(* Shorthands for the claims *)

Done == pc = "done"

\* the scenario records of the specification's worked example
IsScenario ==
    /\ resume_data.skills = ScenarioResumeSkills
    /\ resume_data.experience = << >>
    /\ resume_data.education = << >>
    /\ job_data.skills = ScenarioJobSkills
    /\ job_data.text = << >>
    /\ job_data.requirements = << >>
    /\ job_data.education_required = << >>

\* the categories of the returned breakdown that are not flagged not_specified
Counted == { c \in Categories : ~result.breakdown[c].not_specified }

\* sums over the counted categories: scores in tenths of a point, maxima in points
CountedScore == SumOver(Counted, [c \in Categories |-> result.breakdown[c].score])
CountedMax == SumOver(Counted, [c \in Categories |-> result.breakdown[c].max])

Abs(x) == IF x < 0 THEN -x ELSE x

-----------------------------------------------------------------------------
(* C1: for every pair of records the compatibility_percentage analyze()    *)
(* returns lies in [0, 100] (0..10000 hundredths of a percent).            *)
C1_PercentageInRange ==
    Done => result.compatibility_percentage \in 0..10000

\* an analysis that reaches the upper end of the range with a category excluded
C1_Witness ==
    /\ Done
    /\ result.compatibility_percentage = 10000
    /\ Counted # Categories

(* C2: compatibility_percentage is the sum of the scores of the categories *)
(* not flagged not_specified over the sum of their maxima, times 100 (kept *)
(* to the two decimals the result carries), and 0 when every category is   *)
(* excluded; flagged categories enter neither sum.                         *)
C2_PercentageFormula ==
    Done =>
        IF Counted = {}
        THEN result.compatibility_percentage = 0
        ELSE 2 * Abs(result.compatibility_percentage * CountedMax - 1000 * CountedScore)
                <= CountedMax

\* an excluded category holds points that would have changed the percentage
C2_Witness ==
    /\ Done
    /\ \E c \in Categories :
          /\ result.breakdown[c].not_specified
          /\ result.breakdown[c].score > 0
    /\ result.compatibility_percentage < 10000

(* C3 as stated: in the scenario the scores are 33.3, 0, 10, 5, 5, all     *)
(* five categories are counted and the percentage is 53.3.                 *)
C3_Original ==
    (Done /\ IsScenario) =>
        /\ result.breakdown.required_skills.score = 333
        /\ result.breakdown.preferred_skills.score = 0
        /\ result.breakdown.experience.score = 100
        /\ result.breakdown.education.score = 50
        /\ result.breakdown.soft_skills.score = 50
        /\ Counted = Categories
        /\ result.compatibility_percentage = 5330

(* C3 amended: in the scenario the scores are 33.3, 0, 10, 5, 5, but the   *)
(* resume has no experience and no education text, so those two categories *)
(* are flagged not_specified and left out: the percentage is               *)
(* (33.3+0+5)/(50+30+5)*100 = 45.06.                                       *)
C3_Scenario ==
    (Done /\ IsScenario) =>
        /\ result.breakdown.required_skills.score = 333
        /\ result.breakdown.preferred_skills.score = 0
        /\ result.breakdown.experience.score = 100
        /\ result.breakdown.education.score = 50
        /\ result.breakdown.soft_skills.score = 50
        /\ Counted = {"required_skills", "preferred_skills", "soft_skills"}
        /\ result.compatibility_percentage = 4506

\* the scenario analysed, its experience and education categories excluded
C3_Witness ==
    /\ Done
    /\ IsScenario
    /\ result.breakdown.experience.not_specified
    /\ result.breakdown.education.not_specified

(* C4: skills_table has exactly len(job.skills) entries, the i-th entry is *)
(* about the i-th job skill (order and repetitions kept), and every status *)
(* is present, partial or missing.                                         *)
C4_TableFollowsJobSkills ==
    Done =>
        /\ Len(result.skills_table) = Len(job_data.skills)
        /\ \A i \in 1..Len(job_data.skills) :
              /\ result.skills_table[i].skill = job_data.skills[i]
              /\ result.skills_table[i].status \in {"present", "partial", "missing"}

\* a job skills list that names the same skill twice, analysed
C4_Witness ==
    /\ Done
    /\ Len(job_data.skills) >= 2
    /\ job_data.skills[1] = job_data.skills[2]
    /\ Len(result.skills_table) >= 2

\* the aliases the alias map records for a skill name, looked up by the name
KnownAliases(skill_lower) ==
    UNION { ToSet(skill_variations[v][2]) :
              v \in { w \in 1..Len(skill_variations) : skill_variations[w][1] = skill_lower } }

InResumeSkills(skill) ==
    \E k \in 1..Len(resume_data.skills) : lower(resume_data.skills[k]) = lower(skill)

AliasInResumeText(skill) ==
    \E a \in KnownAliases(lower(skill)) : Contains(a, lower(resume_data.text))

(* C5: a job skill is present exactly when it matches a resume skill       *)
(* case-insensitively, partial exactly when it is not present but one of   *)
(* its known aliases occurs in the resume raw text, missing otherwise; the *)
(* action is "-" for present, "Practice {skill}" for partial and           *)
(* "Learn {skill}" for missing.                                            *)
C5_StatusClassification ==
    Done =>
        \A i \in 1..Len(result.skills_table) :
            LET row == result.skills_table[i]
                skill == job_data.skills[i]
            IN /\ (row.status = "present") <=> InResumeSkills(skill)
               /\ (row.status = "partial") <=>
                      (~InResumeSkills(skill) /\ AliasInResumeText(skill))
               /\ (row.status = "missing") <=>
                      (~InResumeSkills(skill) /\ ~AliasInResumeText(skill))
               /\ row.status = "present" => row.action = << <<"-">> >>
               /\ row.status = "partial" => row.action = << <<"P","r","a","c","t","i","c","e">>, skill >>
               /\ row.status = "missing" => row.action = << <<"L","e","a","r","n">>, skill >>

\* Docker asked for, the resume text says "container" and never "docker": partial
C5_Witness ==
    /\ Done
    /\ Contains(<<"c","o","n","t","a","i","n","e","r">>, lower(resume_data.text))
    /\ ~Contains(<<"d","o","c","k","e","r">>, lower(resume_data.text))
    /\ \E i \in 1..Len(result.skills_table) :
          /\ result.skills_table[i].skill = Docker
          /\ result.skills_table[i].status = "partial"

\* a keyword of the list lies wholly within the window around offset p
KeywordNear(keywords, text, p) ==
    \E k \in 1..Len(keywords) : \E q \in 0..Len(text) :
        /\ OccursAt(keywords[k], text, q)
        /\ q >= p - ContextWindow
        /\ q + Len(keywords[k]) <= p + ContextWindow

\* the offsets at which the skill is mentioned in the resume raw text
Mentions(skill) ==
    { p \in 0..Len(resume_data.text) : OccursAt(lower(skill), lower(resume_data.text), p) }

(* C6: every row's level is Basic, Intermediate or Advanced whatever its   *)
(* status; a partial row's level is Intermediate; a present row's level is *)
(* Advanced or Intermediate only if a matching proficiency keyword lies    *)
(* within the 50-character window around the skill's mention in the resume *)
(* raw text, and Basic otherwise.                                          *)
C6_LevelFromWindow ==
    Done =>
        \A i \in 1..Len(result.skills_table) :
            LET row == result.skills_table[i]
                text == lower(resume_data.text)
            IN /\ row.level \in {"Basic", "Intermediate", "Advanced"}
               /\ row.status = "partial" => row.level = "Intermediate"
               /\ row.status = "present" =>
                    /\ row.level = "Advanced" =>
                          \E p \in Mentions(row.skill) : KeywordNear(advanced_keywords, text, p)
                    /\ row.level = "Intermediate" =>
                          \E p \in Mentions(row.skill) : KeywordNear(intermediate_keywords, text, p)
                    /\ (\A p \in Mentions(row.skill) :
                            /\ ~KeywordNear(advanced_keywords, text, p)
                            /\ ~KeywordNear(intermediate_keywords, text, p))
                          => row.level = "Basic"

(* C7: analyze() called again on the same records returns the same result  *)
(* in every field, whatever happened in between.                           *)
C7_SameInputsSameResult ==
    [][(pc = "done" /\ pc' = "done"
          /\ resume_data' = resume_data /\ job_data' = job_data)
        => result' = result]_vars

(* C8: the percentage recomputed from the returned breakdown, (sum of score *)
(* over entries with not_specified false) / (sum of max over them) * 100,  *)
(* is within 0.01 of the returned compatibility_percentage.                *)
C8_RoundTrip ==
    (Done /\ Counted # {}) =>
        Abs(result.compatibility_percentage * CountedMax - 1000 * CountedScore)
            <= CountedMax

\* a result whose percentage was really rounded, with a category excluded
C8_Witness ==
    /\ Done
    /\ Counted # Categories
    /\ result.compatibility_percentage * CountedMax # 1000 * CountedScore

(* C9: in every breakdown each of the five categories has 0 <= score <= max *)
(* and a percentage that is score/max*100 (to the one decimal it carries)  *)
(* and lies in [0, 100].                                                   *)
C9_CategoryRanges ==
    Done =>
        \A c \in Categories :
            LET e == result.breakdown[c]
            IN /\ e.score \in 0..(10 * e.max)
               /\ e.percentage \in 0..1000
               /\ 2 * Abs(e.percentage * e.max - 100 * e.score) <= e.max

\* an experience score strictly inside its range, from a partial word overlap
C9_Witness ==
    /\ Done
    /\ result.breakdown.experience.score > 0
    /\ result.breakdown.experience.score < 10 * ExperienceMax

(* C10: required_skills and preferred_skills are flagged not_specified iff  *)
(* the resume skills list is empty, experience iff the resume experience   *)
(* text is empty, education iff the resume education text is empty, and    *)
(* soft_skills never.                                                      *)
C10_NotSpecifiedFlags ==
    Done =>
        /\ result.breakdown.required_skills.not_specified <=> (Len(resume_data.skills) = 0)
        /\ result.breakdown.preferred_skills.not_specified <=> (Len(resume_data.skills) = 0)
        /\ result.breakdown.experience.not_specified <=> (Len(resume_data.experience) = 0)
        /\ result.breakdown.education.not_specified <=> (Len(resume_data.education) = 0)
        /\ ~result.breakdown.soft_skills.not_specified

\* a resume without skills but with experience text: the flags differ by category
C10_Witness ==
    /\ Done
    /\ Len(resume_data.skills) = 0
    /\ Len(resume_data.experience) > 0
    /\ result.breakdown.required_skills.not_specified
    /\ ~result.breakdown.experience.not_specified

-----------------------------------------------------------------------------
(* The gaps list and the breakdown's keys *)

\* the position of a gap category in the order skills, experience, education
GapRank(category) ==
    CASE category = "skills" -> 1
      [] category = "experience" -> 2
      [] category = "education" -> 3
      [] OTHER -> 0

\* C11: the gaps list holds at most one entry per category, in the order
\* skills, experience, education, and the breakdown has exactly the five
\* category keys
C11_GapsOrderedBreakdownKeys ==
    Done =>
        /\ \A i \in 1..Len(result.gaps) : GapRank(result.gaps[i].category) > 0
        /\ \A i, j \in 1..Len(result.gaps) :
              i < j => GapRank(result.gaps[i].category)
                         < GapRank(result.gaps[j].category)
        /\ DOMAIN result.breakdown = Categories
        /\ Cardinality(DOMAIN result.breakdown) = 5

\* a result whose gaps list has a skills gap followed by an education gap
C11_Witness ==
    /\ Done
    /\ Len(result.gaps) >= 2
    /\ result.gaps[1].category = "skills"
    /\ result.gaps[Len(result.gaps)].category = "education"

-----------------------------------------------------------------------------
(* Totality and the frame of analyze() *)

ResultKeys ==
    {"compatibility_percentage", "breakdown", "skills_table", "gaps",
     "recommendations", "motivational_message", "resume_skills", "job_skills"}

\* is every optional field of both records empty
AllFieldsEmpty ==
    /\ resume_data.skills = << >> /\ resume_data.text = << >>
    /\ resume_data.experience = << >> /\ resume_data.education = << >>
    /\ job_data.skills = << >> /\ job_data.text = << >>
    /\ job_data.requirements = << >> /\ job_data.education_required = << >>

\* C15: analyze() is total: for any two well-formed records, records with
\* empty fields included, it raises no error and returns a result holding
\* every key
C15_AnalyzeTotal ==
    /\ pc # "raised"
    /\ Done => DOMAIN result = ResultKeys

\* analyze() has returned for two records whose fields are all empty
C15_Witness ==
    /\ Done
    /\ AllFieldsEmpty
    /\ result.compatibility_percentage = 10000

\* C16: analyze() leaves both input records unchanged: every field of
\* resume_data and job_data has the same value and order after the call
C16_InputsUnchanged ==
    [][resume_data' = resume_data /\ job_data' = job_data]_vars

\* analyze() has returned for records with mixed-case, repeated job skills,
\* which the caller still holds as it passed them
C16_Witness ==
    /\ Done
    /\ job_data.skills = <<Python, <<"p","y","t","h","o","n">>>>
    /\ resume_data.skills = ScenarioResumeSkills
    /\ result.job_skills = job_data.skills

-----------------------------------------------------------------------------
(* The two tiers of the job's skills *)

\* the skills of a tier as the breakdown reports them: every skill of the
\* tier is listed as matching or as missing
TierSize(cat) ==
    Len(result.breakdown[cat].matching_skills)
        + Len(result.breakdown[cat].missing_skills)

\* the breakdown reports the first k job skills as required, the rest as preferred
SplitAt(k) ==
    LET n == Len(job_data.skills)
    IN /\ required_skills_of(job_data.skills) = SubSeq(job_data.skills, 1, k)
       /\ preferred_skills_of(job_data.skills) = SubSeq(job_data.skills, k + 1, n)
       /\ TierSize("required_skills") = k
       /\ TierSize("preferred_skills") = n - k

\* C18 as stated: a non-empty job skills list of length n is split at
\* max(1, ceil(0.6*n)), an empty list gives two empty tiers
C18_SplitAtCeiling ==
    Done =>
        LET n == Len(job_data.skills)
            c == (6 * n + 9) \div 10
        IN SplitAt(IF n = 0 THEN 0 ELSE IF c > 1 THEN c ELSE 1)

\* C18 amended: a non-empty job skills list of length n is split at
\* max(1, floor(0.6*n)): the first floor(0.6*n) skills (at least one) are
\* the required skills and the remainder the preferred skills; an empty list
\* gives two empty tiers
C18_SplitAtFloor ==
    Done =>
        LET n == Len(job_data.skills)
            f == (6 * n) \div 10
        IN SplitAt(IF n = 0 THEN 0 ELSE IF f > 1 THEN f ELSE 1)

\* two job skills analysed: one is required and one preferred
C18_Witness ==
    /\ Done
    /\ Len(job_data.skills) = 2
    /\ resume_data.skills # << >>
    /\ TierSize("required_skills") = 1
    /\ TierSize("preferred_skills") = 1

-----------------------------------------------------------------------------
(* The scores of the two skill tiers *)

\* the overlap ratio of two skills lists as the fraction [num, den]: the
\* lower-cased names common to both over the length of b, 1 for an empty b
Overlap(a, b) ==
    IF b = << >> THEN [num |-> 1, den |-> 1]
    ELSE [num |-> Cardinality(ToSet(LowerAll(a)) \cap ToSet(LowerAll(b))),
          den |-> Len(b)]

\* ratio * max rounded to one decimal, in tenths of a point
Scaled(ratio, max) == RoundHalfEven(10 * ratio.num * max, ratio.den)

\* C20: the required_skills score is overlap(resume skills, required skills)
\* * 50 and the preferred_skills score is overlap(resume skills, preferred
\* skills) * 30, rounded to one decimal; an empty tier yields the full 50 or
\* the full 30 whatever the resume skills are
C20_TierScores ==
    Done =>
        LET required == required_skills_of(job_data.skills)
            preferred == preferred_skills_of(job_data.skills)
        IN /\ result.breakdown.required_skills.score
                = Scaled(Overlap(resume_data.skills, required), RequiredMax)
           /\ result.breakdown.preferred_skills.score
                = Scaled(Overlap(resume_data.skills, preferred), PreferredMax)
           /\ required = << >> =>
                result.breakdown.required_skills.score = 10 * RequiredMax
           /\ preferred = << >> =>
                result.breakdown.preferred_skills.score = 10 * PreferredMax

\* a resume naming a skill in another case than the job does, with an empty
\* preferred tier: the required tier scores 50 and the preferred tier 30
C20_Witness ==
    /\ Done
    /\ resume_data.skills = << <<"p","y","t","h","o","n">> >>
    /\ job_data.skills = <<Python>>
    /\ result.breakdown.required_skills.score = 10 * RequiredMax
    /\ preferred_skills_of(job_data.skills) = << >>
    /\ result.breakdown.preferred_skills.score = 10 * PreferredMax

-----------------------------------------------------------------------------
(* ResumeParser._extract_skills, which JobParser._extract_skills calls too.  *)
(* The vocabulary of the model holds the entries of skills_dict whose        *)
(* synonyms occur in the texts the model extracts from, in the order of the  *)
(* dictionary; no other entry has a synonym that occurs in those texts, and  *)
(* the special case of the REST API entry is left out with it.               *)

Git == <<"G","i","t">>

\* skills_dict: canonical name and synonyms, in the order of the dictionary
skills_dict ==
    << [skill_name |-> Python,
        synonyms |-> << <<"p","y","t","h","o","n">>, <<"p","y","t","h","o","n","3">>, <<"p","y","t","h","o","n"," ","3">>, <<"p","y">>,
                        <<"d","j","a","n","g","o">>, <<"f","l","a","s","k">>, <<"f","a","s","t","a","p","i">> >>],
       [skill_name |-> SQL,
        synonyms |-> << <<"s","q","l">>, <<"m","y","s","q","l">>, <<"p","o","s","t","g","r","e","s","q","l">>, <<"o","r","a","c","l","e">>,
                        <<"m","s","s","q","l">> >>],
       [skill_name |-> Git,
        synonyms |-> << <<"g","i","t">>, <<"g","i","t","h","u","b">>, <<"g","i","t","l","a","b">>, <<"b","i","t","b","u","c","k","e","t">> >>] >>

skill_context_keywords ==
    << <<"r'","a'","b'","o'","t'","a'","l'">>, <<"r'","a'","b'","o'","t'","a'","l'","a'">>, <<"r'","a'","b'","o'","t'","a'","yu'">>, <<"r'","a'","b'","o'","t'","a'","e'","t'">>,
       <<"o'","p'","y'","t'">>, <<"o'","p'","y'","t'","o'","m'">>, <<"o'","p'","y'","t'","e'">>,
       <<"z'","n'","a'","yu'">>, <<"z'","n'","a'","e'","t'">>, <<"z'","n'","a'","n'","i'","e'">>,
       <<"v'","l'","a'","d'","e'","yu'">>, <<"v'","l'","a'","d'","e'","e'","t'">>, <<"v'","l'","a'","d'","e'","n'","i'","e'">>,
       <<"i'","s'","p'","o'","l'","soft'","z'","u'","yu'">>, <<"i'","s'","p'","o'","l'","soft'","z'","u'","e'","t'">>, <<"i'","s'","p'","o'","l'","soft'","z'","o'","v'","a'","n'","i'","e'">>,
       <<"p'","r'","i'","m'","e'","n'","ya'","yu'">>, <<"p'","r'","i'","m'","e'","n'","ya'","e'","t'">>, <<"p'","r'","i'","m'","e'","n'","e'","n'","i'","e'">>,
       <<"u'","m'","e'","yu'">>, <<"u'","m'","e'","e'","t'">>, <<"u'","m'","e'","n'","i'","e'">>,
       <<"n'","a'","v'","y'","k'">>, <<"n'","a'","v'","y'","k'","i'">>, <<"n'","a'","v'","y'","k'","a'","m'","i'">>,
       <<"t'","e'","h'","n'","o'","l'","o'","g'","i'","ya'">>, <<"t'","e'","h'","n'","o'","l'","o'","g'","i'","i'">>, <<"t'","e'","h'","n'","o'","l'","o'","g'","i'","ya'","m'","i'">>,
       <<"i'","n'","s'","t'","r'","u'","m'","e'","n'","t'">>, <<"i'","n'","s'","t'","r'","u'","m'","e'","n'","t'","y'">>, <<"i'","n'","s'","t'","r'","u'","m'","e'","n'","t'","a'","m'","i'">>,
       <<"ya'","z'","y'","k'">>, <<"ya'","z'","y'","k'","i'">>, <<"ya'","z'","y'","k'","a'","m'","i'">>,
       <<"f'","r'","e'","j'","m'","v'","o'","r'","k'">>, <<"f'","r'","e'","j'","m'","v'","o'","r'","k'","i'">>, <<"f'","r'","e'","j'","m'","v'","o'","r'","k'","a'","m'","i'">>,
       <<"b'","i'","b'","l'","i'","o'","t'","e'","k'","a'">>, <<"b'","i'","b'","l'","i'","o'","t'","e'","k'","i'">>, <<"b'","i'","b'","l'","i'","o'","t'","e'","k'","a'","m'","i'">>,
       <<"s'">>, <<"v'">>, <<"n'","a'">>, <<"ch'","e'","r'","e'","z'">>, <<"p'","o'","s'","r'","e'","d'","s'","t'","v'","o'","m'">> >>

exclude_keywords ==
    << <<"n'","e'"," ","z'","n'","a'","yu'">>, <<"n'","e'"," ","u'","m'","e'","yu'">>, <<"n'","e'"," ","v'","l'","a'","d'","e'","yu'">>, <<"n'","e'"," ","i'","s'","p'","o'","l'","soft'","z'","u'","yu'">>,
       <<"n'","e'"," ","r'","a'","b'","o'","t'","a'","l'">>, <<"n'","e'"," ","r'","a'","b'","o'","t'","a'","l'","a'">>, <<"n'","e'"," ","r'","a'","b'","o'","t'","a'","yu'">>,
       <<"b'","e'","z'"," ","o'","p'","y'","t'","a'">>, <<"n'","e'","t'"," ","o'","p'","y'","t'","a'">>, <<"n'","e'"," ","i'","m'","e'","yu'"," ","o'","p'","y'","t'","a'">> >>

\* the keywords of is_in_skills_section
skills_section_keywords ==
    << <<"n'","a'","v'","y'","k'">>, <<"t'","e'","h'","n'","o'","l'","o'","g'","i'">>, <<"i'","n'","s'","t'","r'","u'","m'","e'","n'","t'">>, <<"ya'","z'","y'","k'">>, <<"f'","r'","e'","j'","m'","v'","o'","r'","k'">>,
       <<"b'","i'","b'","l'","i'","o'","t'","e'","k'","a'">> >>

\* the tokens a mention of Git may be part of
git_hosts == << <<"g","i","t","h","u","b">>, <<"g","i","t","l","a","b">>, <<"b","i","t","b","u","c","k","e","t">> >>

\* the alternatives that open the two phrase patterns of the secondary pass,
\* and the prepositions of the first
worked_with_markers ==
    << <<"r'","a'","b'","o'","t'","a'","l'">>, <<"r'","a'","b'","o'","t'","a'","l'","a'">>, <<"r'","a'","b'","o'","t'","a'","yu'">>, <<"o'","p'","y'","t'">>, <<"z'","n'","a'","yu'">>,
       <<"v'","l'","a'","d'","e'","yu'">>, <<"i'","s'","p'","o'","l'","soft'","z'","u'","yu'">>, <<"p'","r'","i'","m'","e'","n'","ya'","yu'">>, <<"u'","m'","e'","yu'">> >>
prepositions == << <<"s'">>, <<"v'">>, <<"n'","a'">> >>
section_markers ==
    << <<"t'","e'","h'","n'","o'","l'","o'","g'","i'","i'">>, <<"t'","e'","h'","n'","o'","l'","o'","g'","i'","ya'">>, <<"n'","a'","v'","y'","k'","i'">>, <<"n'","a'","v'","y'","k'">>,
       <<"i'","n'","s'","t'","r'","u'","m'","e'","n'","t'","y'">>, <<"i'","n'","s'","t'","r'","u'","m'","e'","n'","t'">> >>

(* Regular expressions *)

LatinLetters == { UpperCase[i] : i \in 1..26 } \cup { LowerCase[i] : i \in 1..26 }
WordChars ==
    ToSet(UpperCase) \cup ToSet(LowerCase)
        \cup {"0", "1", "2", "3", "4", "5", "6", "7", "8", "9", "_"}

\* \w
IsWordChar(c) == c \in WordChars
\* [A-Z] under re.IGNORECASE, and [a-zA-Z]
IsLatinLetter(c) == c \in LatinLetters
\* \s
SpaceChars == { " ", "\n", "\t" }
\* [\s\w,]
FillerChars == SpaceChars \cup WordChars \cup {","}
\* [\s:]
SeparatorChars == SpaceChars \cup {":"}
\* [a-zA-Z\s\+#\.]
PhraseChars == LatinLetters \cup SpaceChars \cup {"+", "#", "."}
\* [a-zA-Z\s,]
ListChars == LatinLetters \cup SpaceChars \cup {","}

\* \b at 0-based offset p of s
WordBoundary(s, p) ==
    (p > 0 /\ IsWordChar(s[p])) # (p < Len(s) /\ IsWordChar(s[p + 1]))

\* does \b word \b match s at 0-based offset i
WholeWordAt(word, s, i) ==
    /\ OccursAt(word, s, i)
    /\ WordBoundary(s, i)
    /\ WordBoundary(s, i + Len(word))

\* re.search(r'\bword\b', s)
HasWholeWord(word, s) == \E i \in 0..Len(s) : WholeWordAt(word, s, i)

\* s.replace(sub, '')
RECURSIVE RemoveAll(_, _)
RemoveAll(s, sub) ==
    LET i == find(s, sub)
    IN IF i = -1 THEN s
       ELSE SubSeq(s, 1, i) \o RemoveAll(SubSeq(s, i + Len(sub) + 1, Len(s)), sub)

\* the offset where the greedy run of characters of a class from offset i ends
RunEnd(s, i, class) ==
    CHOOSE e \in i..Len(s) :
        /\ \A k \in (i + 1)..e : s[k] \in class
        /\ e = Len(s) \/ s[e + 1] \notin class

(* The synonym pass *)

\* the characters taken on each side of a match as its context
MatchContextWindow == 50

\* text_lower[max(0, start_pos - 50):min(len(text_lower), end_pos + 50)]
context_of(text_lower, start_pos, end_pos) ==
    Slice(text_lower,
          IF start_pos > MatchContextWindow THEN start_pos - MatchContextWindow ELSE 0,
          end_pos + MatchContextWindow)

\* is the match of a synonym of skill_name at [start_pos, end_pos) accepted
match_is_valid(skill_name, text_lower, start_pos, end_pos) ==
    LET context == context_of(text_lower, start_pos, end_pos)
        without_hosts ==
            RemoveAll(RemoveAll(RemoveAll(context, git_hosts[1]), git_hosts[2]),
                      git_hosts[3])
    IN /\ ~ContainsAny(exclude_keywords, context)
       /\ (skill_name = Git /\ ContainsAny(git_hosts, context))
             => HasWholeWord(<<"g","i","t">>, without_hosts)
       /\ \/ ContainsAny(skills_section_keywords, context)
          \/ ContainsAny(skill_context_keywords, context)

\* found_valid: some whole-word match of the synonym is accepted
found_valid(skill_name, synonym, text_lower) ==
    \E i \in 0..Len(text_lower) :
        /\ WholeWordAt(lower(synonym), text_lower, i)
        /\ match_is_valid(skill_name, text_lower, i, i + Len(synonym))

\* the names the first loop appends: one per entry with a valid synonym
RECURSIVE synonym_pass_from(_, _)
synonym_pass_from(k, text_lower) ==
    IF k > Len(skills_dict) THEN << >>
    ELSE LET entry == skills_dict[k]
             rest == synonym_pass_from(k + 1, text_lower)
         IN IF \E s \in 1..Len(entry.synonyms) :
                   found_valid(entry.skill_name, entry.synonyms[s], text_lower)
            THEN <<entry.skill_name>> \o rest
            ELSE rest

synonym_pass(text) == synonym_pass_from(1, lower(text))

(* The secondary pass *)

NoMatch == [found |-> FALSE, end |-> 0, group |-> << >>]

\* prepositions, \s+ and the capture ([A-Z][a-zA-Z\s\+#\.]+) at offset j
phrase_tail_at(text, j) ==
    LET text_lower == lower(text)
        ps == { p \in 1..Len(prepositions) : OccursAt(prepositions[p], text_lower, j) }
    IN IF ps = {} THEN NoMatch
       ELSE LET p == CHOOSE x \in ps : \A y \in ps : x <= y
                a == j + Len(prepositions[p])
                b == RunEnd(text, a, SpaceChars)
                c == RunEnd(text, b + 1, PhraseChars)
            IN IF b > a /\ b < Len(text) /\ IsLatinLetter(text[b + 1]) /\ c > b + 1
               THEN [found |-> TRUE, end |-> c, group |-> SubSeq(text, b + 1, c)]
               ELSE NoMatch

\* the first pattern at offset i: a marker, the longest [\s\w,]+ that still
\* leaves a preposition and a capture, tried marker by marker
worked_with_at(text, i) ==
    LET text_lower == lower(text)
        ends(k) ==
            LET a == i + Len(worked_with_markers[k])
            IN { j \in (a + 1)..RunEnd(text, a, FillerChars) :
                    phrase_tail_at(text, j).found }
        ks == { k \in 1..Len(worked_with_markers) :
                  OccursAt(worked_with_markers[k], text_lower, i) /\ ends(k) # {} }
    IN IF ks = {} THEN NoMatch
       ELSE LET k == CHOOSE x \in ks : \A y \in ks : x <= y
                j == CHOOSE x \in ends(k) : \A y \in ends(k) : x >= y
            IN phrase_tail_at(text, j)

\* the second pattern at offset i: a marker, [\s:]+ and the capture
\* ([A-Z][a-zA-Z\s,]+)
section_at(text, i) ==
    LET text_lower == lower(text)
        tail(k) ==
            LET a == i + Len(section_markers[k])
                b == RunEnd(text, a, SeparatorChars)
                c == RunEnd(text, b + 1, ListChars)
            IN IF b > a /\ b < Len(text) /\ IsLatinLetter(text[b + 1]) /\ c > b + 1
               THEN [found |-> TRUE, end |-> c, group |-> SubSeq(text, b + 1, c)]
               ELSE NoMatch
        ks == { k \in 1..Len(section_markers) :
                  OccursAt(section_markers[k], text_lower, i) /\ tail(k).found }
    IN IF ks = {} THEN NoMatch
       ELSE tail(CHOOSE x \in ks : \A y \in ks : x <= y)

\* re.findall(pattern, text, re.IGNORECASE): the captures of the matches
\* found from offset pos on, left to right, none overlapping another
match_at(pattern, text, i) ==
    IF pattern = 1 THEN worked_with_at(text, i) ELSE section_at(text, i)

RECURSIVE findall(_, _, _)
findall(pattern, text, pos) ==
    LET match(i) == match_at(pattern, text, i)
        starts == { i \in pos..Len(text) : match(i).found }
    IN IF starts = {} THEN << >>
       ELSE LET i == CHOOSE x \in starts : \A y \in starts : x <= y
                m == match(i)
            IN <<m.group>> \o findall(pattern, text, m.end)

\* s.strip()
strip(s) ==
    LET keep == { i \in 1..Len(s) : ~IsSpace(s[i]) }
    IN IF keep = {} THEN << >>
       ELSE SubSeq(s, CHOOSE x \in keep : \A y \in keep : x <= y,
                      CHOOSE x \in keep : \A y \in keep : x >= y)

\* s.rstrip(',')
rstrip_commas(s) ==
    LET keep == { i \in 1..Len(s) : s[i] # "," }
    IN IF keep = {} THEN << >>
       ELSE SubSeq(s, 1, CHOOSE x \in keep : \A y \in keep : x >= y)

\* s.split(',')[0]
before_comma(s) ==
    LET i == find(s, <<",">>)
    IN IF i = -1 THEN s ELSE SubSeq(s, 1, i)

\* match.strip().rstrip(',').split(',')[0].strip()
cleaned_of(match) == strip(before_comma(rstrip_commas(strip(match))))

\* the first entry of skills_dict with a synonym that equals the token or
\* lies in it: its name, as a list of one, or the empty list
resolve(cleaned_lower) ==
    LET ks == { k \in 1..Len(skills_dict) :
                  \E s \in 1..Len(skills_dict[k].synonyms) :
                      \/ lower(skills_dict[k].synonyms[s]) = cleaned_lower
                      \/ Contains(lower(skills_dict[k].synonyms[s]), cleaned_lower) }
    IN IF ks = {} THEN << >>
       ELSE << skills_dict[CHOOSE x \in ks : \A y \in ks : x <= y].skill_name >>

\* a variant that appends a resolved name without looking at found_skill_names
RECURSIVE add_matches_no_dedup(_, _)
add_matches_no_dedup(found_skills, matches) ==
    IF matches = << >> THEN found_skills
    ELSE LET cleaned == cleaned_of(Head(matches))
             names == IF Len(cleaned) > 2 /\ Len(cleaned) < 50
                      THEN resolve(lower(cleaned)) ELSE << >>
         IN add_matches_no_dedup(found_skills \o names, Tail(matches))

\* the loop over the matches of one pattern
RECURSIVE add_matches(_, _)
add_matches(found_skills, matches) ==
    IF matches = << >> THEN found_skills
    ELSE LET cleaned == cleaned_of(Head(matches))
             names == IF Len(cleaned) > 2 /\ Len(cleaned) < 50
                      THEN resolve(lower(cleaned)) ELSE << >>
             found == IF names # << >> /\ names[1] \notin ToSet(found_skills)
                      THEN found_skills \o names ELSE found_skills
         IN add_matches(found, Tail(matches))

\* _extract_skills(text): the synonym pass, then the two phrase patterns
_extract_skills(text) ==
    add_matches(add_matches(synonym_pass(text), findall(1, text, 0)),
                findall(2, text, 0))

-----------------------------------------------------------------------------
(* The state machine of skill extraction: a parser is handed a text *)

\* the pieces the texts are made of
TextTokens ==
    { <<"n'","a'","v'","y'","k'","i'",":"," ">>, <<"z'","n'","a'","yu'"," ">>, <<"n'","e'"," ">>, <<"s'"," ">>, <<"P","y","t","h","o","n"," ">>, <<"P","y","t","h","o","n","i","c",","," ">>,
      <<"s","q","l"," ">>, <<"G","i","t","H","u","b"," ">>, <<"g","i","t"," ">> }

RECURSIVE Concat(_)
Concat(tokens) ==
    IF tokens = << >> THEN << >> ELSE Head(tokens) \o Concat(Tail(tokens))

Texts == { Concat(tokens) : tokens \in SeqsUpTo(TextTokens, MaxTokens) }

EmptyResume ==
    [skills |-> << >>, text |-> << >>, experience |-> << >>, education |-> << >>]
EmptyJob ==
    [skills |-> << >>, text |-> << >>, requirements |-> << >>,
     education_required |-> << >>]

InitExtract ==
    /\ parsed_text \in Texts
    /\ parsed_skills = << >>
    /\ resume_data = EmptyResume
    /\ job_data = EmptyJob
    /\ hashSeed = 0
    /\ pc = "idle"
    /\ result = NoResult
    /\ SimilarityIdle
    /\ HandlerIdle

\* ResumeParser.parse() or JobParser.parse() extracts the skills of the text
Extract ==
    /\ parsed_skills' = _extract_skills(parsed_text)
    /\ pc' = "extracted"
    /\ UNCHANGED <<resume_data, job_data, hashSeed, result, parsed_text, similarity_vars, handler_vars>>

NextExtract == Extract

SpecExtract == InitExtract /\ [][NextExtract]_vars

-----------------------------------------------------------------------------
(* Claims about skill extraction *)

Extracted == pc = "extracted"

text_lower == lower(parsed_text)

\* does a synonym of entry k occur in the text as a whole word
SynonymAsWord(k) ==
    \E s \in 1..Len(skills_dict[k].synonyms) :
        HasWholeWord(lower(skills_dict[k].synonyms[s]), text_lower)

Reported(skill_name) == skill_name \in ToSet(parsed_skills)

\* C12: skill extraction reports a canonical name if and only if one of its
\* synonyms occurs in the text delimited by word boundaries: a synonym that
\* occurs only inside a longer word causes no report, and a whole-word
\* occurrence always does
C12_ReportedIffWholeWord ==
    Extracted =>
        \A k \in 1..Len(skills_dict) :
            Reported(skills_dict[k].skill_name) <=> SynonymAsWord(k)

\* C13: for a text that mentions github, gitlab or bitbucket and has no
\* standalone word git, skill extraction never reports Git, through either
\* pass
C13_NoGitFromHostAlone ==
    (/\ Extracted
     /\ ContainsAny(git_hosts, text_lower)
     /\ ~HasWholeWord(<<"g","i","t">>, text_lower))
        => ~Reported(Git)

\* the position of a canonical name in the vocabulary
VocabularyRank(skill_name) ==
    CHOOSE k \in 1..Len(skills_dict) : skills_dict[k].skill_name = skill_name

NoDuplicates(skills) ==
    \A i, j \in 1..Len(skills) : i # j => skills[i] # skills[j]

InVocabularyOrder(skills) ==
    \A i, j \in 1..Len(skills) :
        i < j => VocabularyRank(skills[i]) < VocabularyRank(skills[j])

-----------------------------------------------------------------------------
(* _compare_skills and _compare_texts, the scorers of                        *)
(* _calculate_compatibility.  A ratio is the fraction [num, den].  A text    *)
(* similarity is the record of how it was computed: the cosine of the        *)
(* TF-IDF vectors of the call's texts under what the vectorizer was fitted   *)
(* on when they were weighted, the word-overlap fallback, or the 0.0 of an   *)
(* empty text.                                                               *)

\* a variant that tests the resume's list before the job's
_compare_skills_resume_first(resume_skills, job_skills) ==
    IF resume_skills = << >> THEN [num |-> 0, den |-> 1]
    ELSE IF job_skills = << >> THEN [num |-> 1, den |-> 1]
    ELSE LET matching_skills ==
                 ToSet(LowerAll(resume_skills)) \cap ToSet(LowerAll(job_skills))
             n == Len(LowerAll(job_skills))
         IN IF Cardinality(matching_skills) > n THEN [num |-> 1, den |-> 1]
            ELSE [num |-> Cardinality(matching_skills), den |-> n]

\* _compare_skills: min(len(matching_skills) / len(job_skills_lower), 1.0)
_compare_skills(resume_skills, job_skills) ==
    IF job_skills = << >> THEN [num |-> 1, den |-> 1]
    ELSE IF resume_skills = << >> THEN [num |-> 0, den |-> 1]
    ELSE LET matching_skills ==
                 ToSet(LowerAll(resume_skills)) \cap ToSet(LowerAll(job_skills))
             n == Len(LowerAll(job_skills))
         IN IF Cardinality(matching_skills) > n THEN [num |-> 1, den |-> 1]
            ELSE [num |-> Cardinality(matching_skills), den |-> n]

\* the longest text _compare_texts hands to the vectorizer
TextLimit == 5000

\* texts = [resume_text[:5000], job_text[:5000]]
texts_of(call) == << Take(call.resume_text, TextLimit), Take(call.job_text, TextLimit) >>

\* return 0.0
ZeroSimilarity == [kind |-> "zero"]

\* float(cosine_similarity(...)) of the texts weighted under a fitted state
Cosine(texts, fitted_on) == [kind |-> "tfidf", texts |-> texts, fitted_on |-> fitted_on]

\* an except branch that lets the error through
Fallback_reraised(texts) == [kind |-> "raised"]

\* the except branch: self._simple_text_comparison(resume_text, job_text)
Fallback(texts) ==
    [kind |-> "fallback", ratio |-> _simple_text_comparison(texts[1], texts[2])]

\* the English stop words of the vectorizer that occur in the texts below
english_stop_words == { <<"i","t">>, <<"i","s">>, <<"o","r">> }

\* the vectorizer's tokens of a text: the runs of two or more word
\* characters of the lower-cased text (token_pattern \b\w\w+\b)
tokens_of(s) ==
    LET low == lower(s)
        starts == { i \in 1..Len(low) :
                      IsWordChar(low[i]) /\ (i = 1 \/ ~IsWordChar(low[i - 1])) }
    IN { SubSeq(low, i, RunEnd(low, i, WordChars)) :
           i \in { j \in starts : RunEnd(low, j, WordChars) > j } }

\* the vocabulary fit_transform builds from the two texts
vocabulary_of(texts) ==
    (tokens_of(texts[1]) \cup tokens_of(texts[2])) \ english_stop_words

\* what _compare_texts returns when no other call touches the vectorizer
_compare_texts(resume_text, job_text) ==
    IF resume_text = << >> \/ job_text = << >> THEN ZeroSimilarity
    ELSE LET texts == texts_of([resume_text |-> resume_text, job_text |-> job_text])
         IN IF vocabulary_of(texts) = {} THEN Fallback(texts)
            ELSE Cosine(texts, texts)

-----------------------------------------------------------------------------
(* The state machine of the similarity scorers: the threads of one process   *)
(* call into the one CompatibilityAnalyzer of main.py                        *)

TextAnna == <<"p","y","t","h","o","n"," ","d","e","v","e","l","o","p","e","r">>
TextBoris == <<"j","a","v","a"," ","s","q","l">>
TextJob == <<"p","y","t","h","o","n"," ","s","q","l"," ","d","e","v","e","l","o","p","e","r">>

\* two texts without a token the vectorizer keeps
TextStopWords == <<"i","t"," ","i","s"," ","C">>
TextStopWordsJob == <<"c"," ","o","r"," ","i","t">>

CallTexts ==
    [resume_text : {<< >>, TextAnna, TextBoris}, job_text : {<< >>, TextJob}]
        \cup { [resume_text |-> TextStopWords, job_text |-> TextStopWordsJob] }

SimilarityResumes ==
    [skills : ResumeSkillLists, text : {<< >>},
     experience : {<< >>}, education : {<< >>}]

InitSimilarity ==
    /\ resume_data \in SimilarityResumes
    /\ job_data \in TableJobs
    /\ hashSeed = 0
    /\ pc = "idle"
    /\ result = NoResult
    /\ parsed_text = << >>
    /\ parsed_skills = << >>
    /\ match_ratio = NoRatio
    /\ calls \in [Threads -> CallTexts]
    /\ tpc = [t \in Threads |-> "idle"]
    /\ vectorizer = Unfitted
    /\ text_similarity = [t \in Threads |-> NoResult]
    /\ HandlerIdle

\* a caller runs _compare_skills on the two skills lists
CompareSkills ==
    /\ pc = "idle"
    /\ match_ratio' = _compare_skills(resume_data.skills, job_data.skills)
    /\ pc' = "compared"
    /\ UNCHANGED <<resume_data, job_data, hashSeed, result, parser_vars, handler_vars,
                   calls, tpc, vectorizer, text_similarity>>

\* thread t calls _compare_texts with an empty text: it returns 0.0
ReturnZero(t) ==
    /\ tpc[t] = "idle"
    /\ calls[t].resume_text = << >> \/ calls[t].job_text = << >>
    /\ text_similarity' = [text_similarity EXCEPT ![t] = ZeroSimilarity]
    /\ tpc' = [tpc EXCEPT ![t] = "done"]
    /\ UNCHANGED <<analysis_vars, parser_vars, handler_vars, match_ratio, calls, vectorizer>>

\* thread t calls _compare_texts with texts that leave the vocabulary empty:
\* fit_transform raises before it stores anything, the handler returns
FitFails(t) ==
    /\ tpc[t] = "idle"
    /\ calls[t].resume_text # << >> /\ calls[t].job_text # << >>
    /\ vocabulary_of(texts_of(calls[t])) = {}
    /\ text_similarity' = [text_similarity EXCEPT ![t] = Fallback(texts_of(calls[t]))]
    /\ tpc' = [tpc EXCEPT ![t] = "done"]
    /\ UNCHANGED <<analysis_vars, parser_vars, handler_vars, match_ratio, calls, vectorizer>>

\* thread t enters self.vectorizer.fit_transform(texts): the shared
\* vectorizer learns the vocabulary and the weights of t's texts
Fit(t) ==
    /\ tpc[t] = "idle"
    /\ calls[t].resume_text # << >> /\ calls[t].job_text # << >>
    /\ vocabulary_of(texts_of(calls[t])) # {}
    /\ vectorizer' = texts_of(calls[t])
    /\ tpc' = [tpc EXCEPT ![t] = "fitted"]
    /\ UNCHANGED <<analysis_vars, parser_vars, handler_vars, match_ratio, calls, text_similarity>>

\* thread t leaves fit_transform and returns: its texts are weighted under
\* what the vectorizer holds now.  When another thread has fitted it since,
\* the weights are the other call's, or their shape does not fit t's matrix
\* and the exception handler returns the fallback.
Transform(t) ==
    /\ tpc[t] = "fitted"
    /\ \E outcome \in
           IF vectorizer = texts_of(calls[t])
           THEN { Cosine(texts_of(calls[t]), vectorizer) }
           ELSE { Cosine(texts_of(calls[t]), vectorizer), Fallback(texts_of(calls[t])) } :
         text_similarity' = [text_similarity EXCEPT ![t] = outcome]
    /\ tpc' = [tpc EXCEPT ![t] = "done"]
    /\ UNCHANGED <<analysis_vars, parser_vars, handler_vars, match_ratio, calls, vectorizer>>

NextSimilarity ==
    \/ CompareSkills
    \/ \E t \in Threads : ReturnZero(t)
    \/ \E t \in Threads : FitFails(t)
    \/ \E t \in Threads : Fit(t)
    \/ \E t \in Threads : Transform(t)

SpecSimilarity == InitSimilarity /\ [][NextSimilarity]_vars

-----------------------------------------------------------------------------
(* Claims about the similarity scorers *)

Compared == pc = "compared"

\* C19: the overlap ratio of two skills lists a and b is |lowercased(a) and
\* lowercased(b) in common| / |b|, always within [0, 1]; it is 1.0 whenever b
\* is empty, whatever a is, and 0.0 whenever a is empty and b is not
C19_OverlapRatio ==
    Compared =>
        LET a == resume_data.skills
            b == job_data.skills
            common == ToSet(LowerAll(a)) \cap ToSet(LowerAll(b))
        IN /\ match_ratio.den > 0
           /\ 0 <= match_ratio.num /\ match_ratio.num <= match_ratio.den
           /\ b # << >> =>
                 match_ratio.num * Len(b) = Cardinality(common) * match_ratio.den
           /\ b = << >> => match_ratio.num = match_ratio.den
           /\ (a = << >> /\ b # << >>) => match_ratio.num = 0

\* the ratio of an empty resume list against an empty job list is 1.0
C19_Witness ==
    /\ Compared
    /\ resume_data.skills = << >>
    /\ job_data.skills = << >>
    /\ match_ratio.num = 1
    /\ match_ratio.den = 1

\* C17: concurrent analyses share no mutable state: the vectorizer's fitted
\* vocabulary is built per invocation and not shared, so under any
\* interleaving of two computations on the same CompatibilityAnalyzer each
\* returns the result it returns when run alone
C17_SameResultAsAlone ==
    \A t \in Threads :
        tpc[t] = "done" =>
            text_similarity[t] = _compare_texts(calls[t].resume_text, calls[t].job_text)

\* the words of a text, as str.split() on the lower-cased text gives them
WordsOf(s) == SplitWords(lower(s))

-----------------------------------------------------------------------------
(* Education score, gaps and action plan *)

\* the resume's education text holds one of the analyzer's education keywords
ResumeHasEducationKeyword ==
    ContainsAny(education_keywords, lower(resume_data.education))

(* C21: the education score is 5 when the job has no education requirement *)
(* or the resume's education text holds an education keyword, 0 when the   *)
(* job requires education and the resume's education text is empty, 2.5    *)
(* when the job requires education and the resume's education text is      *)
(* non-empty without a keyword; no other value occurs (scores in tenths).  *)
C21_EducationScore ==
    Done =>
        result.breakdown.education.score =
            IF job_data.education_required = << >> \/ ResumeHasEducationKeyword THEN 50
            ELSE IF resume_data.education = << >> THEN 0
            ELSE 25

\* the gap of a category in the returned gaps, as a sequence of at most one gap
GapsOf(category) == SelectSeq(result.gaps, LAMBDA g : g.category = category)

\* the lower-cased job skills that are no lower-cased resume skill
MissingLowered ==
    { lower(job_data.skills[i]) : i \in 1..Len(job_data.skills) }
        \ { lower(resume_data.skills[i]) : i \in 1..Len(resume_data.skills) }

(* C22 as stated: _find_gaps emits a skills gap exactly when the           *)
(* case-insensitive set difference jobSkills - resumeSkills is non-empty,  *)
(* and that gap lists at most 5 missing skill names.                       *)
C22_AtMostFiveItems ==
    Done =>
        /\ (GapsOf("skills") # << >>) <=> (MissingLowered # {})
        /\ \A i \in 1..Len(GapsOf("skills")) : Len(GapsOf("skills")[i].items) <= 5

(* C22 amended: the skills gap is emitted exactly when the difference is   *)
(* non-empty; its items hold every missing name once, however many, and    *)
(* only its description is cut to the first 5 of them.                     *)
C22_ItemsAllDescriptionFive ==
    Done =>
        /\ (GapsOf("skills") # << >>) <=> (MissingLowered # {})
        /\ Len(GapsOf("skills")) <= 1
        /\ \A i \in 1..Len(GapsOf("skills")) :
              LET gap == GapsOf("skills")[i]
              IN /\ ToSet(gap.items) = MissingLowered
                 /\ Len(gap.items) = Cardinality(MissingLowered)
                 /\ gap.description = Take(gap.items, 5)
                 /\ Len(gap.description) <= 5

\* a posting with six skills the resume lacks: six items, five of them described
C22_Witness ==
    /\ Done
    /\ GapsOf("skills") # << >>
    /\ Len(GapsOf("skills")[1].items) = 6
    /\ Len(GapsOf("skills")[1].description) = 5

\* the experience keywords found in the job's requirements and not in the
\* resume's experience text
KeywordsMissingFromExperience ==
    { k \in 1..Len(requirement_keywords) :
        /\ Contains(requirement_keywords[k], lower(job_data.requirements))
        /\ ~Contains(requirement_keywords[k], lower(resume_data.experience)) }

(* C23: _find_gaps emits an experience gap exactly when the job's          *)
(* requirements text holds an experience keyword absent from the resume's  *)
(* experience text and the resume's experience text is empty; a resume     *)
(* with any experience text gets none, and an empty experience text with   *)
(* keyword-free requirements gets none either.                             *)
C23_ExperienceGap ==
    Done =>
        /\ (GapsOf("experience") # << >>)
              <=> (KeywordsMissingFromExperience # {} /\ resume_data.experience = << >>)
        /\ resume_data.experience # << >> => GapsOf("experience") = << >>
        /\ (/\ resume_data.experience = << >>
            /\ ~ContainsAny(requirement_keywords, lower(job_data.requirements)))
              => GapsOf("experience") = << >>

\* an empty experience text against requirements that ask for experience
C23_Witness ==
    /\ Done
    /\ resume_data.experience = << >>
    /\ KeywordsMissingFromExperience # {}
    /\ Len(GapsOf("experience")) = 1

\* the lines of the returned recommendations of one kind
LinesOf(kind) == SelectSeq(result.recommendations, LAMBDA line : line.kind = kind)

Min(a, b) == IF a < b THEN a ELSE b

(* C25: the numbered action plan of the motivational recommendations holds *)
(* one numbered step for each of the first (up to) 3 gaps, and the two     *)
(* generic lines (keep developing, update the resume) appear exactly when  *)
(* the gaps list is empty.                                                 *)
C25_StepPerGap ==
    Done =>
        /\ Len(LinesOf("learn")) = Min(3, Len(result.gaps))
        /\ (LinesOf("keep_developing") # << >>) <=> (result.gaps = << >>)
        /\ (LinesOf("update_resume") # << >>) <=> (result.gaps = << >>)

-----------------------------------------------------------------------------
(* Motivational message and counted categories *)

\* the tier of a percentage given in hundredths of a percent
TierOfReported(hundredths) ==
    IF hundredths >= 8000 THEN "congratulations"
    ELSE IF hundredths >= 6000 THEN "excellent"
    ELSE IF hundredths >= 4000 THEN "almost"
    ELSE "plan"

(* C26: the tier of the motivational message is the tier of the reported   *)
(* percentage (>= 80, >= 60, >= 40, else): the tier chosen from the        *)
(* unrounded value never disagrees with the tier the reported, rounded     *)
(* compatibility_percentage implies.                                       *)
C26_TierOfReportedPercentage ==
    Done =>
        result.motivational_message.tier = TierOfReported(result.compatibility_percentage)

(* C27: the set of categories analyze() counts in the percentage is never  *)
(* empty: soft_skills is always in it, so the denominator is at least 5    *)
(* and the branch that sets the percentage to 0 for want of a counted      *)
(* category is never taken.                                                *)
C27_SoftSkillsAlwaysCounted ==
    Done =>
        /\ ~result.breakdown.soft_skills.not_specified
        /\ "soft_skills" \in valid_categories(result.breakdown)
        /\ valid_categories(result.breakdown) # {}
        /\ SumOver(valid_categories(result.breakdown),
                   [c \in Categories |-> result.breakdown[c].max]) >= 5

\* a resume without skills, experience and education: soft_skills is the
\* only category counted and the denominator is exactly 5
C27_Witness ==
    /\ Done
    /\ resume_data.skills = << >>
    /\ resume_data.experience = << >>
    /\ resume_data.education = << >>
    /\ valid_categories(result.breakdown) = {"soft_skills"}
    /\ CountedMax = 5

-----------------------------------------------------------------------------
(* The three views of the missing skills *)

\* the lower-cased skills of the table rows whose status is not "present"
MissingInTable ==
    { lower(result.skills_table[i].skill) :
        i \in { r \in 1..Len(result.skills_table) :
                  result.skills_table[r].status # "present" } }

\* the items of the skills gap, none when no skills gap was emitted
MissingInGap ==
    UNION { ToSet(GapsOf("skills")[i].items) : i \in 1..Len(GapsOf("skills")) }

\* the lower-cased missing_skills of the two skills entries of the breakdown
MissingInBreakdown ==
    ToSet(LowerAll(result.breakdown.required_skills.missing_skills))
        \cup ToSet(LowerAll(result.breakdown.preferred_skills.missing_skills))

(* C28: in one analyze() result the three views of the missing skills      *)
(* agree: the lower-cased skills of the skills_table rows whose status is  *)
(* not present, the items of the skills gap (none without a skills gap)    *)
(* and the lower-cased union of the missing_skills of the required_skills  *)
(* and preferred_skills breakdown entries are the same set.                *)
C28_MissingViewsAgree ==
    Done =>
        /\ MissingInTable = MissingInGap
        /\ MissingInGap = MissingInBreakdown

\* a result with a missing row, a partial row and a present row, where the
\* missing skills are spread over both skills entries of the breakdown
C28_Witness ==
    /\ Done
    /\ \E i, j, k \in 1..Len(result.skills_table) :
          /\ result.skills_table[i].status = "missing"
          /\ result.skills_table[j].status = "partial"
          /\ result.skills_table[k].status = "present"
    /\ result.breakdown.required_skills.missing_skills # << >>
    /\ result.breakdown.preferred_skills.missing_skills # << >>
    /\ MissingInGap # {}


-----------------------------------------------------------------------------
(* ResumeParser.parse after the file is read: the record built from the    *)
(* text, and the analysis of a record the parser produced                  *)

experience_keywords ==
    << <<"o'","p'","y'","t'">>, <<"e","x","p","e","r","i","e","n","c","e">>, <<"r'","a'","b'","o'","t'","a'","l'">>, <<"r'","a'","b'","o'","t'","a'","l'","a'">>, <<"r'","a'","b'","o'","t'","a'","yu'">> >>

parser_education_keywords ==
    << <<"o'","b'","r'","a'","z'","o'","v'","a'","n'","i'","e'">>, <<"e","d","u","c","a","t","i","o","n">>, <<"u'","n'","i'","v'","e'","r'","s'","i'","t'","e'","t'">>, <<"i'","n'","s'","t'","i'","t'","u'","t'">>, <<"v'","u'","z'">> >>

\* text.split('\n'): the pieces between the line feeds, empty ones included
RECURSIVE split_lines(_)
split_lines(s) ==
    IF \A i \in 1..Len(s) : s[i] # "\n" THEN << s >>
    ELSE LET at == CHOOSE i \in 1..Len(s) :
                      s[i] = "\n" /\ \A k \in 1..(i - 1) : s[k] # "\n"
         IN << SubSeq(s, 1, at - 1) >> \o split_lines(SubSeq(s, at + 1, Len(s)))

\* '\n'.join(lines)
RECURSIVE join_lines(_)
join_lines(lines) ==
    IF lines = << >> THEN << >>
    ELSE IF Len(lines) = 1 THEN lines[1]
    ELSE lines[1] \o << "\n" >> \o join_lines(Tail(lines))

\* lines[i:i+3] with i counted from 1
three_from(lines, i) ==
    SubSeq(lines, i, IF i + 2 < Len(lines) THEN i + 2 ELSE Len(lines))

\* the loop of _extract_experience and _extract_education from line i on:
\* every line that holds a keyword contributes itself and the next two lines
RECURSIVE keyword_lines_from(_, _, _)
keyword_lines_from(lines, keywords, i) ==
    IF i > Len(lines) THEN << >>
    ELSE (IF ContainsAny(keywords, lower(lines[i]))
          THEN three_from(lines, i) ELSE << >>)
         \o keyword_lines_from(lines, keywords, i + 1)

\* a variant that takes the two lines after the keyword line only
RECURSIVE keyword_lines_after_from(_, _, _)
keyword_lines_after_from(lines, keywords, i) ==
    IF i > Len(lines) THEN << >>
    ELSE (IF ContainsAny(keywords, lower(lines[i]))
          THEN Tail(three_from(lines, i)) ELSE << >>)
         \o keyword_lines_after_from(lines, keywords, i + 1)

_extract_experience(text) ==
    join_lines(Take(keyword_lines_from(split_lines(text), experience_keywords, 1), 10))

_extract_education_lines_after(text) ==
    join_lines(Take(keyword_lines_after_from(split_lines(text),
                                             parser_education_keywords, 1), 10))

_extract_education(text) ==
    join_lines(Take(keyword_lines_from(split_lines(text),
                                       parser_education_keywords, 1), 10))

\* parsed_data of parse(), without the languages the analyzer never reads
parse(text) ==
    [text |-> text,
     skills |-> _extract_skills(text),
     experience |-> _extract_experience(text),
     education |-> _extract_education(text)]

\* the lines of the resumes
ResumeLines ==
    { <<"E","D","U","C","A","T","I","O","N">>, <<"o","n","l","i","n","e"," ","c","o","u","r","s","e","s">>, <<"O'","p'","y'","t'",":"," ","P","y","t","h","o","n">>, <<"v'","u'","z'"," ","M'","G'","U'">> }

ResumeFiles == { join_lines(lines) : lines \in SeqsUpTo(ResumeLines, MaxLines) }

ParsedJobs ==
    { [EmptyJob EXCEPT !.education_required = e] :
        e \in { << >>, <<"T'","r'","e'","b'","u'","e'","t'","s'","ya'",":"," ","u'","n'","i'","v'","e'","r'","s'","i'","t'","e'","t'">> } }

InitParse ==
    /\ parsed_text \in ResumeFiles
    /\ parsed_skills = << >>
    /\ resume_data = EmptyResume
    /\ job_data \in ParsedJobs
    /\ hashSeed = 0
    /\ pc = "idle"
    /\ result = NoResult
    /\ SimilarityIdle
    /\ HandlerIdle

\* parser.parse(): the record of the uploaded resume
Parse ==
    /\ pc = "idle"
    /\ resume_data' = parse(parsed_text)
    /\ pc' = "parsed"
    /\ UNCHANGED <<job_data, hashSeed, result, parser_vars, similarity_vars, handler_vars>>

\* analyzer.analyze() on the parsed record
AnalyzeParsed == pc = "parsed" /\ Analyze

NextParse == Parse \/ AnalyzeParsed

SpecParse == InitParse /\ [][NextParse]_vars

(* C29: the education text of a record ResumeParser produced is empty or   *)
(* holds an education keyword the analyzer recognizes, so such a resume is *)
(* never given the half score 2.5: its education score is 0 or 5.          *)
C29_ParsedEducationScore ==
    /\ pc \in {"parsed", "done"} =>
          \/ resume_data.education = << >>
          \/ ContainsAny(education_keywords, lower(resume_data.education))
    /\ Done => result.breakdown.education.score \in {0, 50}

\* a parsed education text that carries a line without any keyword, scored
\* in full against a posting that requires a university
C29_Witness ==
    /\ Done
    /\ job_data.education_required # << >>
    /\ Contains(<<"o","n","l","i","n","e"," ","c","o","u","r","s","e","s">>, resume_data.education)
    /\ result.breakdown.education.score = 50


-----------------------------------------------------------------------------
(* The /api/analyze handler of src/main.py: the uploaded resume is copied   *)
(* to a temporary file, parsed, the posting is fetched and parsed, the two  *)
(* records are analysed; the except clauses turn what was raised into the   *)
(* status code of the response.                                             *)

\* the 1-based position of the last c in s, 0 when there is none
rfind(s, c) ==
    IF \E i \in 1..Len(s) : s[i] = c
    THEN CHOOSE i \in 1..Len(s) : s[i] = c /\ \A k \in (i + 1)..Len(s) : s[k] # c
    ELSE 0

\* os.path.splitext(path)[1]: from the last dot of the last path component
\* on, unless only dots precede it in that component
splitext(path) ==
    LET sepIndex == rfind(path, "/")
        dotIndex == rfind(path, ".")
    IN IF dotIndex > sepIndex
          /\ \E k \in (sepIndex + 1)..(dotIndex - 1) : path[k] # "."
       THEN SubSeq(path, dotIndex, Len(path))
       ELSE << >>

\* ['.pdf', '.docx', '.txt']
supported_extensions == { <<".","p","d","f">>, <<".","d","o","c","x">>, <<".","t","x","t">> }

\* the status code the handler's except clauses give to an exception:
\* `except ValueError` answers 400, `except Exception` answers 500
status_of(exception) == IF exception = "ValueError" THEN 400 ELSE 500

\* the names of the uploaded files
FileNames ==
    { <<"c","v",".","p","d","f">>, <<"C","V",".","P","D","F">>, <<"c","v",".","d","o","c","x">>, <<"c","v",".","t","x","t">>, <<"m","y",".","c","v",".","t","x","t">>,
      <<"c","v",".","d","o","c">>, <<"c","v",".","r","t","f">>, <<"c","v">>, <<".","t","x","t">>, <<"c","v",".","t","x","t","/","s","c","a","n">>, <<"c","v",".","p","d","f",".","e","x","e">> }

\* a request: the file name, whether the parser can read the file's content,
\* whether the posting behind the URL can be fetched and parsed
Uploads ==
    [filename : FileNames, content : {"readable", "corrupt"},
     job_url : {"reachable", "unreachable"}]

InitHandler ==
    /\ resume_data = EmptyResume
    /\ job_data = EmptyJob
    /\ hashSeed = 0
    /\ pc = "idle"
    /\ result = NoResult
    /\ parsed_text = << >>
    /\ parsed_skills = << >>
    /\ SimilarityIdle
    /\ upload \in Uploads
    /\ hpc = "received"
    /\ temp_file = "none"
    /\ raised = "none"
    /\ http_status = 0

\* an exception leaves the try block: the except clauses answer
Respond(exception) ==
    /\ raised' = exception
    /\ http_status' = status_of(exception)
    /\ hpc' = "responded"

\* the extension test, inside the try block: an unsupported extension raises
\* HTTPException(status_code=400) there
CheckExtension ==
    /\ hpc = "received"
    /\ IF lower(splitext(upload.filename)) \notin supported_extensions
       THEN Respond("HTTPException")
       ELSE hpc' = "checked" /\ UNCHANGED <<raised, http_status>>
    /\ UNCHANGED <<analysis_vars, parser_vars, similarity_vars, upload, temp_file>>

\* the upload is copied to the temporary file; opening or writing may fail
WriteTempFile ==
    /\ hpc = "checked"
    /\ \E outcome \in {"written", "open failed", "write failed"} :
          IF outcome = "written"
          THEN /\ temp_file' = "written"
               /\ hpc' = "written"
               /\ UNCHANGED <<raised, http_status>>
          ELSE /\ temp_file' = (IF outcome = "write failed" THEN "partial" ELSE "none")
               /\ Respond("OSError")
    /\ UNCHANGED <<analysis_vars, parser_vars, similarity_vars, upload>>

\* resume_parser.parse(temp_file_path): every failure to read the file is
\* raised as ValueError; the finally clause removes the file
ParseResume ==
    /\ hpc = "written"
    /\ IF upload.content = "corrupt"
       THEN temp_file' = "removed" /\ Respond("ValueError")
       ELSE hpc' = "resume parsed" /\ UNCHANGED <<temp_file, raised, http_status>>
    /\ UNCHANGED <<analysis_vars, parser_vars, similarity_vars, upload>>

\* job_parser.parse(job_url): every failure is raised as ValueError
ParseJob ==
    /\ hpc = "resume parsed"
    /\ IF upload.job_url = "unreachable"
       THEN temp_file' = "removed" /\ Respond("ValueError")
       ELSE hpc' = "job parsed" /\ UNCHANGED <<temp_file, raised, http_status>>
    /\ UNCHANGED <<analysis_vars, parser_vars, similarity_vars, upload>>

\* analyzer.analyze() and the JSON response, or an error nobody expected;
\* the finally clause removes the file either way
AnalyzeAndRespond ==
    /\ hpc = "job parsed"
    /\ temp_file' = "removed"
    /\ \E outcome \in {"returned", "Exception"} :
          IF outcome = "returned"
          THEN /\ http_status' = 200
               /\ hpc' = "responded"
               /\ UNCHANGED raised
          ELSE Respond("Exception")
    /\ UNCHANGED <<analysis_vars, parser_vars, similarity_vars, upload>>

NextHandler ==
    \/ CheckExtension
    \/ WriteTempFile
    \/ ParseResume
    \/ ParseJob
    \/ AnalyzeAndRespond

SpecHandler == InitHandler /\ [][NextHandler]_vars

Responded == hpc = "responded"

(* C30: /api/analyze answers an upload whose extension is not .pdf, .docx  *)
(* or .txt with status 400, as it answers every ValueError of the parsers; *)
(* status 500 is given to unexpected internal errors only; and whenever    *)
(* the temporary resume file was written, it is removed by the time the    *)
(* response or the error is returned.                                      *)
C30_HandlerResponses ==
    Responded =>
        /\ lower(splitext(upload.filename)) \notin supported_extensions
              => http_status = 400
        /\ raised = "ValueError" => http_status = 400
        /\ http_status = 500 => raised \in {"OSError", "Exception"}
        /\ temp_file # "written"


=============================================================================
